---- MODULE Spec2Model ----
(***************************************************************************)
(* A model of the request-processing core of conduit-go: the token-bucket  *)
(* rate limiter, the CSRF token store and middleware, the MySQL grammar    *)
(* and query builder, the trie router, and the shutdown sequence.          *)
(*                                                                         *)
(* Each subsystem has its own state, actions and specification (SpecRL,    *)
(* SpecCSRF, ...).  The subsystems share no state in the program, so a     *)
(* subsystem's specification leaves the other subsystems' variables alone. *)
(*                                                                         *)
(* Time is a counter of clock ticks.  For the rate limiter one tick is one *)
(* second; the float64 token count of the program is kept exactly, as the  *)
(* integer tokens * windowInSeconds (rounding of float64 is not modelled). *)
(***************************************************************************)
EXTENDS Integers, Sequences, FiniteSets, TLC

VARIABLES
    now,              \* the clock, in ticks (time.Now())
    \* ---- rate limiter (internal/middleware/rate_limit.go)
    maxRequests,      \* RateLimiter.maxRequests
    windowInSeconds,  \* RateLimiter.windowInSeconds
    buckets,          \* RateLimiter.buckets: key -> bucket, a partial function
    lastAllow,        \* the most recent return value of Allow
    winKey,           \* observer: the key whose admissions are counted
    winStart,         \* observer: the start of the observed interval
    winCount,         \* observer: the admissions of winKey since winStart
    burst,            \* observer: the responses of the RateLimit middleware
    \* ---- CSRF (internal/middleware/csrf.go)
    csrfTokens,       \* csrfStore.tokens: session id -> [Value, ExpiresAt]
    nextToken,        \* the number of tokens generateCSRFToken has produced
    nextSession,      \* the number of session ids the middleware has produced
    inflight,         \* per server thread: the request inside CSRFProtection
    lastResp,         \* the response the last step completed, if it completed one
    \* ---- query builder (pkg/database/builder.go) and MySQL grammar
    qb,               \* the QueryBuilder's fields
    lastCall,         \* the most recent call on the builder or grammar
    \* ---- router (internal/router/router.go)
    trees,            \* Router.trees: method -> trie
    middlewares,      \* Router.middlewares, the global middleware
    routes,           \* observer: the routes registered, with their handlers
    lastDispatch,     \* the outcome of the most recent ServeHTTP
    groups,           \* the route groups made so far
    \* ---- scanner (pkg/database/scanner.go)
    scannerCache,     \* scannerCache: record type -> [fieldMap, lastAccess]
    scannerCacheMu,   \* scannerCacheMu: the writer and the readers holding it
    scanThreads,      \* per thread: its ScanStruct call and its call stack
    lastScan,         \* the outcome of the most recent ScanStruct that returned
    \* ---- background reapers and main's teardown
    orchestrator,     \* where main is
    cacheDriver,      \* cfg.Cache.Driver
    reapers,          \* per reaper goroutine: notStarted or running
    stopSignals,      \* the reapers that have been told to stop
    reaperRuns,       \* per reaper: the runs of its loop body
    teardownLog,      \* the teardown steps done, with their outcome
    \* ---- file cache (pkg/cache/file_cache.go)
    fcFiles,          \* the cache directory: key -> [Value, ExpiresAt]
    fcMu,             \* FileCache.mu: the writer and the readers holding it
    fcThreads,        \* per thread: its call on the cache and its call stack
    lastCacheCall,    \* the most recent call on the cache that returned
    \* ---- the limiter's lock and the goroutines inside Allow and cleanup
    rlMu,             \* RateLimiter.mu: the goroutine holding it
    rlThreads,        \* per goroutine: where it is in Allow or in cleanup
    lastConc          \* the most recent Allow or cleanup pass that finished

rlVars == <<maxRequests, windowInSeconds, buckets, lastAllow,
            winKey, winStart, winCount>>

csrfVars == <<csrfTokens, nextToken, nextSession, inflight, lastResp>>

sqlVars == <<qb, lastCall>>

routerVars == <<trees, middlewares, routes, lastDispatch>>

groupVars == <<groups>>

scanVars == <<scannerCache, scannerCacheMu, scanThreads, lastScan>>

rlObserverVars == <<burst>>

cacheVars == <<fcFiles, fcMu, fcThreads, lastCacheCall>>

rlConcVars == <<rlMu, rlThreads, lastConc>>

shutdownVars == <<orchestrator, cacheDriver, reapers, stopSignals, reaperRuns,
                  teardownLog>>

vars == <<now, rlVars, csrfVars, sqlVars, routerVars, shutdownVars,
          groupVars, scanVars, rlObserverVars, cacheVars, rlConcVars>>

\* What the actions of one subsystem leave alone.
nonRLVars == <<csrfVars, sqlVars, routerVars, shutdownVars, groupVars, scanVars,
               rlObserverVars, cacheVars, rlConcVars>>
nonCSRFVars == <<rlVars, sqlVars, routerVars, shutdownVars, groupVars, scanVars,
                 rlObserverVars, cacheVars, rlConcVars>>
nonSQLVars == <<now, rlVars, csrfVars, routerVars, shutdownVars, groupVars,
                scanVars, rlObserverVars, cacheVars, rlConcVars>>
nonRouterVars == <<now, rlVars, csrfVars, sqlVars, shutdownVars, groupVars,
                   scanVars, rlObserverVars, cacheVars, rlConcVars>>
nonShutdownVars == <<now, rlVars, csrfVars, sqlVars, routerVars, groupVars,
                     scanVars, rlObserverVars, cacheVars, rlConcVars>>
nonGroupVars == <<now, rlVars, csrfVars, sqlVars, shutdownVars, scanVars,
                  rlObserverVars, cacheVars, rlConcVars>>
nonScanVars == <<rlVars, csrfVars, sqlVars, routerVars, shutdownVars, groupVars,
                 rlObserverVars, cacheVars, rlConcVars>>
nonCacheVars == <<rlVars, csrfVars, sqlVars, routerVars, shutdownVars, groupVars,
                  scanVars, rlObserverVars, rlConcVars>>
nonRLConcVars == <<csrfVars, sqlVars, routerVars, shutdownVars, groupVars,
                   scanVars, rlObserverVars, cacheVars>>
nonQueryVars == <<now, rlVars, csrfVars, routerVars, shutdownVars, groupVars,
                  rlObserverVars, cacheVars, rlConcVars>>

(***************************************************************************)
(* Generic helpers.                                                        *)
(***************************************************************************)
Min(a, b) == IF a < b THEN a ELSE b

\* No goroutine: the holder of a lock that is free.
NoThread == "none"

\* The clock is capped so that the model is finite.
MaxTime == 7

Tick ==
    /\ now < MaxTime
    /\ now' = now + 1

(***************************************************************************)
(* RATE LIMITER                                                            *)
(***************************************************************************)
\* The keys requests are charged to (r.RemoteAddr in the middleware).
Keys == {"10.0.0.1:5000", "10.0.0.2:5000"}

\* The limiter configurations NewRateLimiter is called with.
Capacities == {2, 3}
Windows == {2, 3}

NoCall == [called |-> FALSE]

\* refillRate = maxRequests / windowInSeconds tokens per second.  A bucket's
\* tokens are stored as tokensW = tokens * windowInSeconds, so the tokens
\* that accrue in `elapsed` seconds are elapsed * maxRequests, one whole
\* token is windowInSeconds and the capacity is maxRequests * windowInSeconds.
OneToken == windowInSeconds
FullBucket == maxRequests * windowInSeconds

refillTokens_NoCap(bucket, t) ==
    [tokensW |-> bucket.tokensW + (t - bucket.lastRefillTime) * maxRequests,
     lastRefillTime |-> t]

refillTokens_Whole(bucket, t) ==
    [tokensW |-> Min(((bucket.tokensW + (t - bucket.lastRefillTime) * maxRequests)
                        \div OneToken) * OneToken,
                     FullBucket),
     lastRefillTime |-> t]

refillTokens(bucket, t) ==
    [tokensW |-> Min(bucket.tokensW + (t - bucket.lastRefillTime) * maxRequests,
                     FullBucket),
     lastRefillTime |-> t]

\* time.Duration(1.0/rl.refillRate) * time.Second: the conversion of the
\* float64 to time.Duration (an int64) truncates, so the result is a whole
\* number of seconds.
RetryAfterSeconds == windowInSeconds \div maxRequests

\* The bucket Allow works on: the stored one, or a new full one.
BucketOf(key) ==
    IF key \in DOMAIN buckets
        THEN buckets[key]
        ELSE [tokensW |-> FullBucket, lastRefillTime |-> now]

PutBucket(key, b) ==
    [k \in (DOMAIN buckets) \cup {key} |-> IF k = key THEN b ELSE buckets[k]]

Allow_TwoTokens(key) ==
    LET b == refillTokens(BucketOf(key), now)
    IN  /\ buckets' = PutBucket(key, [b EXCEPT !.tokensW =
                                        IF @ >= OneToken THEN @ - 2 * OneToken ELSE @])
        /\ lastAllow' = [called |-> TRUE, key |-> key,
                         allowed |-> b.tokensW >= OneToken,
                         remaining |-> 0, retryAfter |-> 0]
        /\ winCount' = winCount

Allow(key) ==
    LET b == refillTokens(BucketOf(key), now)
    IN  IF b.tokensW >= OneToken
        THEN /\ buckets' = PutBucket(key, [b EXCEPT !.tokensW = @ - OneToken])
             /\ lastAllow' = [called |-> TRUE, key |-> key, allowed |-> TRUE,
                              remaining |-> (b.tokensW - OneToken) \div OneToken,
                              retryAfter |-> 0]
             /\ winCount' = IF key = winKey THEN winCount + 1 ELSE winCount
        ELSE /\ buckets' = PutBucket(key, b)
             /\ lastAllow' = [called |-> TRUE, key |-> key, allowed |-> FALSE,
                              remaining |-> 0,
                              retryAfter |-> RetryAfterSeconds]
             /\ UNCHANGED winCount

AllowCall ==
    /\ \E key \in Keys : Allow(key)
    /\ UNCHANGED <<now, maxRequests, windowInSeconds, winKey, winStart, nonRLVars>>

CleanupExpired_OnePerRun(bs, t) ==
    LET old == {k \in DOMAIN bs : t - bs[k].lastRefillTime > 2 * windowInSeconds}
        gone == IF old = {} THEN {} ELSE {CHOOSE k \in old : TRUE}
    IN  [k \in (DOMAIN bs) \ gone |-> bs[k]]

CleanupExpired_AnyIdle(bs, t) ==
    [k \in {k \in DOMAIN bs : ~(t - bs[k].lastRefillTime > 0)} |-> bs[k]]

\* One run of the reaper's loop body, under the limiter's lock.
CleanupExpired(bs, t) ==
    [k \in {k \in DOMAIN bs : ~(t - bs[k].lastRefillTime > 2 * windowInSeconds)}
        |-> bs[k]]

cleanupRun ==
    /\ buckets' = CleanupExpired(buckets, now)
    /\ UNCHANGED <<now, maxRequests, windowInSeconds, lastAllow,
                   winKey, winStart, winCount, nonRLVars>>

\* The observer starts a new interval, for any key, at the present moment.
MarkInterval ==
    /\ \E key \in Keys : winKey' = key
    /\ winStart' = now
    /\ winCount' = 0
    /\ UNCHANGED <<now, maxRequests, windowInSeconds, buckets, lastAllow, nonRLVars>>

TickRL == Tick /\ UNCHANGED <<rlVars, nonRLVars>>

\* ---- Allow and cleanup, goroutine by goroutine --------------------------
\* Allow as a function of the limiter's map, the key and the moment of its
\* time.Now(): the map it leaves and the values it returns.
AllowOn(bs, key, t) ==
    LET found == IF key \in DOMAIN bs
                    THEN bs[key]
                    ELSE [tokensW |-> FullBucket, lastRefillTime |-> t]
        b == refillTokens(found, t)
        put(nb) == [k \in (DOMAIN bs) \cup {key} |-> IF k = key THEN nb ELSE bs[k]]
    IN  IF b.tokensW >= OneToken
        THEN [buckets |-> put([b EXCEPT !.tokensW = @ - OneToken]),
              allowed |-> TRUE,
              remaining |-> (b.tokensW - OneToken) \div OneToken,
              retryAfter |-> 0]
        ELSE [buckets |-> put(b), allowed |-> FALSE, remaining |-> 0,
              retryAfter |-> RetryAfterSeconds]

\* The goroutines: two serving requests, and the one `go limiter.cleanup`
\* started.  Each statement of Allow that reads or writes the bucket is a
\* step of its own, so that what keeps the steps of two calls apart is
\* rl.mu and nothing else.
MaxConcTime == 5

AllowThreads == {"a1", "a2"}
\* The goroutines serve requests of one client.
ContendedKeys == {"10.0.0.1:5000"}
CleanupThread == "cleanup"
NotInLimiter == [pc |-> "idle"]
NoConcCall == [done |-> FALSE]

\* rl.mu is free.
MuFree_NoMutex == TRUE

MuFree == rlMu = NoThread

\* The bucket the goroutine's pointer leads to.  Under rl.mu it is always
\* the map's entry; a goroutine whose bucket has been deleted from the map
\* (possible only without the lock) works on the object it still points to.
Pointee(th) ==
    IF rlThreads[th].key \in DOMAIN buckets
        THEN buckets[rlThreads[th].key]
        ELSE rlThreads[th].b

WritePointee(th, b) ==
    IF rlThreads[th].key \in DOMAIN buckets
        THEN [buckets EXCEPT ![rlThreads[th].key] = b]
        ELSE buckets

\* A request arrives: Allow(key) is called.
AllowEnter ==
    /\ \E th \in AllowThreads, key \in ContendedKeys :
          /\ rlThreads[th].pc = "idle"
          /\ rlThreads' = [rlThreads EXCEPT ![th] = [pc |-> "lock", op |-> "Allow",
                                                     key |-> key]]
    /\ UNCHANGED <<now, rlVars, rlMu, lastConc, nonRLConcVars>>

\* The ticker of cleanup fires.
CleanupEnter ==
    /\ rlThreads[CleanupThread].pc = "idle"
    /\ rlThreads' = [rlThreads EXCEPT ![CleanupThread] =
                        [pc |-> "lock", op |-> "cleanup"]]
    /\ UNCHANGED <<now, rlVars, rlMu, lastConc, nonRLConcVars>>

\* rl.mu.Lock()
MuLock ==
    /\ \E th \in AllowThreads \cup {CleanupThread} :
          /\ rlThreads[th].pc = "lock"
          /\ MuFree
          /\ rlMu' = th
          /\ rlThreads' = [rlThreads EXCEPT ![th].pc = "now"]
    /\ UNCHANGED <<now, rlVars, lastConc, nonRLConcVars>>

\* now := time.Now(); the lookup, and the new bucket if there is none.
AllowNow ==
    /\ \E th \in AllowThreads :
          /\ rlThreads[th].pc = "now"
          /\ LET key == rlThreads[th].key
                 b == BucketOf(key)
             IN  /\ buckets' = PutBucket(key, b)
                 /\ rlThreads' = [rlThreads EXCEPT ![th] =
                        [pc |-> "refill", op |-> "Allow", key |-> key, t |-> now,
                         pre |-> buckets, b |-> b, ok |-> FALSE]]
    /\ UNCHANGED <<now, maxRequests, windowInSeconds, lastAllow, winKey, winStart,
                   winCount, rlMu, lastConc, nonRLConcVars>>

\* rl.refillTokens(bucket, now)
AllowRefill ==
    /\ \E th \in AllowThreads :
          /\ rlThreads[th].pc = "refill"
          /\ LET b == refillTokens(Pointee(th), rlThreads[th].t)
             IN  /\ buckets' = WritePointee(th, b)
                 /\ rlThreads' = [rlThreads EXCEPT ![th].pc = "check", ![th].b = b]
    /\ UNCHANGED <<now, maxRequests, windowInSeconds, lastAllow, winKey, winStart,
                   winCount, rlMu, lastConc, nonRLConcVars>>

\* if bucket.tokens >= 1.0
AllowCheck ==
    /\ \E th \in AllowThreads :
          /\ rlThreads[th].pc = "check"
          /\ rlThreads' = [rlThreads EXCEPT
                              ![th].pc = "finish",
                              ![th].ok = Pointee(th).tokensW >= OneToken,
                              ![th].b = Pointee(th)]
    /\ UNCHANGED <<now, rlVars, rlMu, lastConc, nonRLConcVars>>

\* bucket.tokens -= 1.0 and the return of the admission, or the return of
\* the rejection; the deferred Unlock.
AllowFinish ==
    /\ \E th \in AllowThreads :
          /\ rlThreads[th].pc = "finish"
          /\ LET b == IF rlThreads[th].ok
                         THEN [Pointee(th) EXCEPT !.tokensW = @ - OneToken]
                         ELSE Pointee(th)
             IN  /\ buckets' = WritePointee(th, b)
                 /\ lastConc' =
                       [done |-> TRUE, op |-> "Allow", thread |-> th,
                        key |-> rlThreads[th].key,
                        allowed |-> rlThreads[th].ok,
                        remaining |-> IF rlThreads[th].ok
                                         THEN b.tokensW \div OneToken ELSE 0,
                        retryAfter |-> IF rlThreads[th].ok
                                          THEN 0 ELSE RetryAfterSeconds]
          /\ rlThreads' = [rlThreads EXCEPT ![th] = NotInLimiter]
    /\ rlMu' = NoThread
    /\ UNCHANGED <<now, maxRequests, windowInSeconds, lastAllow, winKey, winStart,
                   winCount, nonRLConcVars>>

\* cleanup under the lock: now := time.Now() and the start of the range.
CleanupNow ==
    /\ rlThreads[CleanupThread].pc = "now"
    /\ rlThreads' = [rlThreads EXCEPT ![CleanupThread] =
                        [pc |-> "range", op |-> "cleanup", t |-> now,
                         pre |-> buckets, todo |-> DOMAIN buckets]]
    /\ UNCHANGED <<now, rlVars, rlMu, lastConc, nonRLConcVars>>

\* One iteration of the range, which deletes the bucket if it has been idle
\* for more than two windows; after the last one, rl.mu.Unlock().
CleanupRange ==
    /\ rlThreads[CleanupThread].pc = "range"
    /\ LET c == rlThreads[CleanupThread]
       IN  IF c.todo = {}
           THEN /\ rlMu' = NoThread
                /\ rlThreads' = [rlThreads EXCEPT ![CleanupThread] = NotInLimiter]
                /\ lastConc' = [done |-> TRUE, op |-> "cleanup",
                                thread |-> CleanupThread]
                /\ UNCHANGED buckets
           ELSE \E key \in c.todo :
                /\ buckets' =
                      IF key \in DOMAIN buckets
                            /\ c.t - buckets[key].lastRefillTime
                                  > 2 * windowInSeconds
                         THEN [k \in (DOMAIN buckets) \ {key} |-> buckets[k]]
                         ELSE buckets
                /\ rlThreads' = [rlThreads EXCEPT
                                    ![CleanupThread].todo = @ \ {key}]
                /\ UNCHANGED <<rlMu, lastConc>>
    /\ UNCHANGED <<now, maxRequests, windowInSeconds, lastAllow, winKey, winStart,
                   winCount, nonRLConcVars>>

TickConc ==
    /\ now < MaxConcTime
    /\ Tick
    /\ UNCHANGED <<rlVars, rlConcVars, nonRLConcVars>>

InitConc ==
    /\ rlMu = NoThread
    /\ rlThreads = [th \in AllowThreads \cup {CleanupThread} |-> NotInLimiter]
    /\ lastConc = NoConcCall

NextConc ==
    \/ AllowEnter
    \/ CleanupEnter
    \/ MuLock
    \/ AllowNow
    \/ AllowRefill
    \/ AllowCheck
    \/ AllowFinish
    \/ CleanupNow
    \/ CleanupRange
    \/ TickConc

\* ---- the RateLimit middleware -------------------------------------------
\* A request as the middleware sees it: the connection's remote host and
\* port, and the authenticated subject if the request has one.
NoSubject == ""
Clients ==
    {[ip |-> "10.0.0.1", port |-> "5000", subject |-> NoSubject],
     [ip |-> "10.0.0.1", port |-> "5001", subject |-> NoSubject],
     [ip |-> "10.0.0.2", port |-> "5000", subject |-> "u1"],
     [ip |-> "10.0.0.3", port |-> "5000", subject |-> "u1"]}

\* r.RemoteAddr, which net/http sets to "host:port".
RemoteAddr(c) == c.ip \o ":" \o c.port

\* key := r.RemoteAddr
RateLimitKey(c) == RemoteAddr(c)

\* The requests the model follows through one middleware, and the clock of
\* that model.
MaxServed == 5
MaxBurstTime == 2

\* What the middleware answers for Allow's result `res`.
RateLimitResponse(c, res, fresh, t) ==
    [client |-> c, key |-> res.key, fresh |-> fresh, at |-> t,
     allowed |-> res.allowed, remaining |-> res.remaining,
     status |-> IF res.allowed THEN 200 ELSE 429,
     handler |-> res.allowed,
     hasRetryAfter |-> ~res.allowed,
     retryAfter |-> res.retryAfter]

\* The handler RateLimit returns, serving one request.
RateLimitServe ==
    /\ Len(burst) < MaxServed
    /\ \E c \in Clients :
          /\ Allow(RateLimitKey(c))
          /\ burst' = Append(burst,
                             RateLimitResponse(c, lastAllow',
                                               RateLimitKey(c) \notin DOMAIN buckets,
                                               now))
    /\ UNCHANGED <<now, maxRequests, windowInSeconds, winKey, winStart,
                   csrfVars, sqlVars, routerVars, shutdownVars, groupVars, scanVars,
                   cacheVars, rlConcVars>>

TickBurst ==
    /\ now < MaxBurstTime
    /\ TickRL

NextRateLimit ==
    \/ RateLimitServe
    \/ TickBurst

(***************************************************************************)
(* CSRF                                                                    *)
(*                                                                         *)
(* One tick is one hour.  generateCSRFToken and the middleware's session   *)
(* id draw from crypto/rand: a draw is modelled as a value never produced  *)
(* before (the n-th token, the n-th session id); the fallback token of a   *)
(* failing random source is not modelled.  The middleware is not atomic:   *)
(* GetToken and ValidateToken each take the store's lock on their own, so  *)
(* the clock and other requests may act between them.                      *)
(***************************************************************************)
\* ExpiresAt: time.Now().Add(2 * time.Hour)
CSRFTokenTTL == 2

\* The clock of the CSRF model stops here.
MaxCSRFTime == 4
\* The tokens and session ids the random source is asked for.
MaxTokens == 2
MaxSessions == 1

Threads == {"t1", "t2"}

SafeMethods == {"GET", "HEAD", "OPTIONS"}
Methods == SafeMethods \cup {"POST", "PUT", "PATCH", "DELETE", "TRACE"}

\* Session ids and tokens are pairs <<kind, n>>.
NoSession == <<"none", 0>>
NoToken == <<"none", 0>>
ClientSession == <<"client", 0>>
ForgedToken == <<"forged", 0>>
SessionID(n) == <<"random", n>>
Token(n) == <<"random", n>>
NoEntry == [exists |-> FALSE, Value |-> NoToken, ExpiresAt |-> 0]
Idle == [busy |-> FALSE]
NoResp == [done |-> FALSE]

\* What a client may send as its session_id cookie: nothing, a value of its
\* own choosing, or a session id the middleware has set.
CookieSessions ==
    {NoSession, ClientSession} \cup {SessionID(n) : n \in 1 .. (nextSession - 1)}
\* What a client may send as a token: nothing, a forgery, or one of the
\* `issued` tokens that had been generated when its request arrived.
SentTokens(issued) == {NoToken, ForgedToken} \cup {Token(n) : n \in 1 .. issued}

Entry(sessionID) ==
    IF sessionID \in DOMAIN csrfTokens
        THEN [exists |-> TRUE, Value |-> csrfTokens[sessionID].Value,
              ExpiresAt |-> csrfTokens[sessionID].ExpiresAt]
        ELSE NoEntry

GetTokenHit_Always(sessionID) == sessionID \in DOMAIN csrfTokens

\* time.Now().Before(token.ExpiresAt)
GetTokenHit(sessionID) ==
    /\ sessionID \in DOMAIN csrfTokens
    /\ now < csrfTokens[sessionID].ExpiresAt

GetTokenValue_Stale(sessionID) ==
    IF sessionID \in DOMAIN csrfTokens THEN csrfTokens[sessionID].Value
                                       ELSE Token(nextToken)

\* GetToken: the token returned, and its effect on the store.
GetTokenValue(sessionID) ==
    IF GetTokenHit(sessionID) THEN csrfTokens[sessionID].Value ELSE Token(nextToken)

GetTokenStore(sessionID) ==
    IF GetTokenHit(sessionID)
        THEN csrfTokens
        ELSE [s \in (DOMAIN csrfTokens) \cup {sessionID} |->
                IF s = sessionID
                    THEN [Value |-> Token(nextToken),
                          ExpiresAt |-> now + CSRFTokenTTL]
                    ELSE csrfTokens[s]]

ValidateToken_NoExpiry(sessionID, token) ==
    /\ sessionID \in DOMAIN csrfTokens
    /\ csrfTokens[sessionID].Value = token

ValidateToken(sessionID, token) ==
    /\ sessionID \in DOMAIN csrfTokens
    /\ ~(now > csrfTokens[sessionID].ExpiresAt)
    /\ csrfTokens[sessionID].Value = token

\* r.FormValue("_token"): the body's value first, then the query's.
FormValue(form, query) == IF form # NoToken THEN form ELSE query

\* The submitted token: header, then form, then query parameter.
SubmittedToken(header, form, query) ==
    IF header # NoToken THEN header
    ELSE IF FormValue(form, query) # NoToken THEN FormValue(form, query)
    ELSE query

\* The first half of the middleware: the session id is read or created, the
\* token is fetched or created and set as the csrf_token cookie.
CSRFBegin ==
    \E th \in Threads, cookie \in CookieSessions :
        /\ inflight[th] = Idle
        /\ cookie = NoSession => nextSession <= MaxSessions
        /\ LET sessionID == IF cookie = NoSession THEN SessionID(nextSession)
                                                    ELSE cookie
           IN  /\ ~GetTokenHit(sessionID) => nextToken <= MaxTokens
               /\ csrfTokens' = GetTokenStore(sessionID)
               /\ nextToken' = IF GetTokenHit(sessionID) THEN nextToken
                                                         ELSE nextToken + 1
               /\ nextSession' = IF cookie = NoSession THEN nextSession + 1
                                                       ELSE nextSession
               /\ inflight' = [inflight EXCEPT ![th] =
                                 [busy |-> TRUE, sessionID |-> sessionID,
                                  newSession |-> (cookie = NoSession),
                                  issued |-> nextToken - 1,
                                  csrfCookie |-> GetTokenValue(sessionID)]]
        /\ lastResp' = NoResp
        /\ UNCHANGED <<now, nonCSRFVars>>

\* The second half: the method gate, the extraction of the submitted token
\* and its validation; then either the 403 or the downstream handler.
CSRFFinish ==
    \E th \in {t \in Threads : inflight[t] # Idle}, method \in Methods :
      \E submitted \in {SubmittedToken(header, form, query) :
                            header \in SentTokens(inflight[th].issued),
                            form \in SentTokens(inflight[th].issued),
                            query \in SentTokens(inflight[th].issued)} :
        /\ LET sessionID == inflight[th].sessionID
               pass == \/ method \in SafeMethods
                       \/ ~(submitted = NoToken \/ ~ValidateToken(sessionID, submitted))
           IN  lastResp' = [done |-> TRUE, method |-> method,
                            sessionID |-> sessionID,
                            newSession |-> inflight[th].newSession,
                            csrfCookie |-> inflight[th].csrfCookie,
                            submitted |-> IF method \in SafeMethods
                                            THEN NoToken ELSE submitted,
                            stored |-> Entry(sessionID), at |-> now,
                            status |-> IF pass THEN 200 ELSE 403,
                            handler |-> pass]
        /\ inflight' = [inflight EXCEPT ![th] = Idle]
        /\ UNCHANGED <<now, nonCSRFVars, csrfTokens, nextToken, nextSession>>

TickCSRF ==
    /\ now < MaxCSRFTime
    /\ Tick
    /\ lastResp' = NoResp
    /\ UNCHANGED <<nonCSRFVars, csrfTokens, nextToken, nextSession, inflight>>

InitCSRF ==
    /\ csrfTokens = <<>>
    /\ nextToken = 1
    /\ nextSession = 1
    /\ inflight = [th \in Threads |-> Idle]
    /\ lastResp = NoResp

NextCSRF ==
    \/ CSRFBegin
    \/ CSRFFinish
    \/ TickCSRF

(***************************************************************************)
(* SQL GRAMMAR AND QUERY BUILDER                                           *)
(*                                                                         *)
(* A Go string is a sequence of one-character strings, so that quoting,    *)
(* trimming, upper-casing and concatenation are computed, not assumed.     *)
(* The grammar is the validating MySQLGrammar; a panic is a result with    *)
(* panic = TRUE.  A WHERE value is opaque: it is written as the text it    *)
(* would have if it were printed.  A Go map argument is given as the       *)
(* sequence of its entries in the order the range loop happens to visit.   *)
(***************************************************************************)
LowerCase == <<"a", "b", "c", "d", "e", "f", "g", "h", "i", "j", "k", "l", "m",
               "n", "o", "p", "q", "r", "s", "t", "u", "v", "w", "x", "y", "z">>
UpperCase == <<"A", "B", "C", "D", "E", "F", "G", "H", "I", "J", "K", "L", "M",
               "N", "O", "P", "Q", "R", "S", "T", "U", "V", "W", "X", "Y", "Z">>
DigitChars == <<"0", "1", "2", "3", "4", "5", "6", "7", "8", "9">>

Range(f) == {f[i] : i \in DOMAIN f}

\* The characters of the class [a-zA-Z0-9_\.]
IdentChars == Range(LowerCase) \cup Range(UpperCase) \cup Range(DigitChars)
                \cup {"_", "."}

\* unicode.IsSpace, for the characters of the model's inputs.
WhiteSpace == {" ", "\t", "\n", "\r"}

RECURSIVE Concat(_)
Concat(seqs) == IF seqs = <<>> THEN <<>> ELSE Head(seqs) \o Concat(Tail(seqs))

\* strings.Join
RECURSIVE Join(_, _)
Join(parts, sep) ==
    IF parts = <<>> THEN <<>>
    ELSE IF Len(parts) = 1 THEN parts[1]
    ELSE parts[1] \o sep \o Join(Tail(parts), sep)

\* strings.Split(s, sep) for a one-character separator.
RECURSIVE Split(_, _)
Split(s, sep) ==
    IF \A i \in 1 .. Len(s) : s[i] # sep THEN <<s>>
    ELSE LET i == CHOOSE j \in 1 .. Len(s) :
                    s[j] = sep /\ \A k \in 1 .. (j - 1) : s[k] # sep
         IN  <<SubSeq(s, 1, i - 1)>> \o Split(SubSeq(s, i + 1, Len(s)), sep)

\* strings.Contains(s, c) for a one-character c.
Contains(s, c) == \E i \in 1 .. Len(s) : s[i] = c

ToUpperChar(c) ==
    IF c \in Range(LowerCase)
        THEN UpperCase[CHOOSE i \in DOMAIN LowerCase : LowerCase[i] = c]
        ELSE c

\* strings.ToUpper
ToUpper(s) == [i \in 1 .. Len(s) |-> ToUpperChar(s[i])]

\* strings.TrimSpace
TrimSpace(s) ==
    LET keep == {i \in 1 .. Len(s) : s[i] \notin WhiteSpace}
    IN  IF keep = {} THEN <<>>
        ELSE SubSeq(s, CHOOSE i \in keep : \A j \in keep : i <= j,
                       CHOOSE i \in keep : \A j \in keep : i >= j)

\* fmt.Sprintf("%d", n)
RECURSIVE Itoa(_)
Itoa(n) ==
    IF n < 0 THEN <<"-">> \o Itoa(0 - n)
    ELSE IF n < 10 THEN <<DigitChars[n + 1]>>
    ELSE Itoa(n \div 10) \o <<DigitChars[(n % 10) + 1]>>

\* validIdentifierPattern.MatchString: ^[a-zA-Z0-9_\.]+$
MatchIdentifier(s) == Len(s) > 0 /\ \A i \in 1 .. Len(s) : s[i] \in IdentChars

\* The backtick character.  A TLA+ string cannot hold it, so it is written as
\* a token that is no other character of the model.
BackQuote == "BQ"

Backtick(s) == <<BackQuote>> \o s \o <<BackQuote>>

Wrap_WholeOnly(value) ==
    IF value = <<"*">> THEN [panic |-> FALSE, out |-> value]
    ELSE IF Contains(value, ".")
        THEN [panic |-> FALSE,
              out |-> Join([i \in DOMAIN Split(value, ".") |->
                              Backtick(Split(value, ".")[i])], <<".">>)]
    ELSE IF ~MatchIdentifier(value) THEN [panic |-> TRUE, out |-> <<>>]
    ELSE [panic |-> FALSE, out |-> Backtick(value)]

Wrap(value) ==
    IF value = <<"*">> THEN [panic |-> FALSE, out |-> value]
    ELSE IF Contains(value, ".")
        THEN LET parts == Split(value, ".")
             IN  IF \E i \in DOMAIN parts : ~MatchIdentifier(parts[i])
                    THEN [panic |-> TRUE, out |-> <<>>]
                    ELSE [panic |-> FALSE,
                          out |-> Join([i \in DOMAIN parts |-> Backtick(parts[i])],
                                       <<".">>)]
    ELSE IF ~MatchIdentifier(value) THEN [panic |-> TRUE, out |-> <<>>]
    ELSE [panic |-> FALSE, out |-> Backtick(value)]

allowedOperators ==
    {<<"=">>, <<"!", "=">>, <<"<", ">">>, <<"<">>, <<">">>, <<"<", "=">>,
     <<">", "=">>, <<"L", "I", "K", "E">>,
     <<"N", "O", "T", " ", "L", "I", "K", "E">>, <<"I", "N">>,
     <<"N", "O", "T", " ", "I", "N">>,
     <<"B", "E", "T", "W", "E", "E", "N">>,
     <<"N", "O", "T", " ", "B", "E", "T", "W", "E", "E", "N">>,
     <<"I", "S">>, <<"I", "S", " ", "N", "O", "T">>}

validateOperator_Any(operator) == TRUE

\* validateOperator panics unless this holds.
validateOperator(operator) == ToUpper(TrimSpace(operator)) \in allowedOperators

\* The operator text a WHERE clause puts into the SQL.
EmittedOperator(w) == ToUpper(w.Operator)

\* OrderDirection's two values.
OrderAsc == <<"A", "S", "C">>
OrderDesc == <<"D", "E", "S", "C">>

BoolAnd == <<"A", "N", "D">>
BoolOr == <<"O", "R">>

Sp == <<" ">>

\* The loop over the WHERE clauses, shared by SELECT, UPDATE and DELETE:
\* " WHERE " and the clauses, or nothing when there is none.
WhereClauseSQL_Inline(w, i) ==
    (IF i > 1 THEN Sp \o w.Boolean \o Sp ELSE <<>>)
        \o Wrap(w.Column).out \o Sp \o EmittedOperator(w) \o Sp \o w.Value

WhereClauseSQL_AlwaysBoolean(w, i) ==
    Sp \o w.Boolean \o Sp
        \o Wrap(w.Column).out \o Sp \o EmittedOperator(w) \o <<" ", "?">>

WhereClauseSQL(w, i) ==
    (IF i > 1 THEN Sp \o w.Boolean \o Sp ELSE <<>>)
        \o Wrap(w.Column).out \o Sp \o EmittedOperator(w) \o <<" ", "?">>

WhereClausePanics(w) == ~validateOperator(w.Operator) \/ Wrap(w.Column).panic

CompileWheres(wheres) ==
    IF \E i \in DOMAIN wheres : WhereClausePanics(wheres[i])
        THEN [panic |-> TRUE, sql |-> <<>>, args |-> <<>>]
    ELSE IF Len(wheres) = 0 THEN [panic |-> FALSE, sql |-> <<>>, args |-> <<>>]
    ELSE [panic |-> FALSE,
          sql |-> <<" ", "W", "H", "E", "R", "E", " ">>
                    \o Concat([i \in DOMAIN wheres |-> WhereClauseSQL(wheres[i], i)]),
          args |-> [i \in DOMAIN wheres |-> wheres[i].Value]]

Panicked == [panic |-> TRUE, sql |-> <<>>, args |-> <<>>]

OrdersSQL(orders) ==
    IF Len(orders) = 0 THEN <<>>
    ELSE <<" ", "O", "R", "D", "E", "R", " ", "B", "Y", " ">>
            \o Join([i \in DOMAIN orders |->
                        Wrap(orders[i].Column).out \o Sp \o orders[i].Direction],
                    <<",", " ">>)

CompileSelect_OffsetFirst(q) ==
    LET w == CompileWheres(q.wheres)
    IN  IF \/ \E i \in DOMAIN q.columns : Wrap(q.columns[i]).panic
           \/ Wrap(q.table).panic
           \/ w.panic
           \/ \E i \in DOMAIN q.orders : Wrap(q.orders[i].Column).panic
        THEN Panicked
        ELSE [panic |-> FALSE,
              sql |-> <<"S", "E", "L", "E", "C", "T", " ">>
                        \o Join([i \in DOMAIN q.columns |-> Wrap(q.columns[i]).out],
                                <<",", " ">>)
                        \o <<" ", "F", "R", "O", "M", " ">> \o Wrap(q.table).out
                        \o w.sql
                        \o OrdersSQL(q.orders)
                        \o (IF q.offset > 0
                              THEN <<" ", "O", "F", "F", "S", "E", "T", " ">>
                                     \o Itoa(q.offset)
                              ELSE <<>>)
                        \o (IF q.limit > 0
                              THEN <<" ", "L", "I", "M", "I", "T", " ">> \o Itoa(q.limit)
                              ELSE <<>>),
              args |-> w.args]

CompileSelect(q) ==
    LET w == CompileWheres(q.wheres)
    IN  IF \/ \E i \in DOMAIN q.columns : Wrap(q.columns[i]).panic
           \/ Wrap(q.table).panic
           \/ w.panic
           \/ \E i \in DOMAIN q.orders : Wrap(q.orders[i].Column).panic
        THEN Panicked
        ELSE [panic |-> FALSE,
              sql |-> <<"S", "E", "L", "E", "C", "T", " ">>
                        \o Join([i \in DOMAIN q.columns |-> Wrap(q.columns[i]).out],
                                <<",", " ">>)
                        \o <<" ", "F", "R", "O", "M", " ">> \o Wrap(q.table).out
                        \o w.sql
                        \o OrdersSQL(q.orders)
                        \o (IF q.limit > 0
                              THEN <<" ", "L", "I", "M", "I", "T", " ">> \o Itoa(q.limit)
                              ELSE <<>>)
                        \o (IF q.offset > 0
                              THEN <<" ", "O", "F", "F", "S", "E", "T", " ">>
                                     \o Itoa(q.offset)
                              ELSE <<>>),
              args |-> w.args]

CompileInsert_TwoLoops(table, data) ==
    IF (\E i \in DOMAIN data : Wrap(data[i].k).panic) \/ Wrap(table).panic
        THEN Panicked
        ELSE [panic |-> FALSE,
              sql |-> <<"I", "N", "S", "E", "R", "T", " ", "I", "N", "T", "O", " ">>
                        \o Wrap(table).out \o <<" ", "(">>
                        \o Join([i \in DOMAIN data |-> Wrap(data[i].k).out],
                                <<",", " ">>)
                        \o <<")", " ", "V", "A", "L", "U", "E", "S", " ", "(">>
                        \o Join([i \in DOMAIN data |-> <<"?">>], <<",", " ">>)
                        \o <<")">>,
              args |-> [i \in DOMAIN data |-> data[Len(data) + 1 - i].v]]

CompileInsert(table, data) ==
    IF (\E i \in DOMAIN data : Wrap(data[i].k).panic) \/ Wrap(table).panic
        THEN Panicked
        ELSE [panic |-> FALSE,
              sql |-> <<"I", "N", "S", "E", "R", "T", " ", "I", "N", "T", "O", " ">>
                        \o Wrap(table).out \o <<" ", "(">>
                        \o Join([i \in DOMAIN data |-> Wrap(data[i].k).out],
                                <<",", " ">>)
                        \o <<")", " ", "V", "A", "L", "U", "E", "S", " ", "(">>
                        \o Join([i \in DOMAIN data |-> <<"?">>], <<",", " ">>)
                        \o <<")">>,
              args |-> [i \in DOMAIN data |-> data[i].v]]

CompileUpdate(table, data, wheres) ==
    LET w == CompileWheres(wheres)
    IN  IF \/ \E i \in DOMAIN data : Wrap(data[i].k).panic
           \/ Wrap(table).panic
           \/ w.panic
        THEN Panicked
        ELSE [panic |-> FALSE,
              sql |-> <<"U", "P", "D", "A", "T", "E", " ">> \o Wrap(table).out
                        \o <<" ", "S", "E", "T", " ">>
                        \o Join([i \in DOMAIN data |->
                                    Wrap(data[i].k).out \o <<" ", "=", " ", "?">>],
                                <<",", " ">>)
                        \o w.sql,
              args |-> [i \in DOMAIN data |-> data[i].v] \o w.args]

CompileDelete(table, wheres) ==
    LET w == CompileWheres(wheres)
    IN  IF Wrap(table).panic \/ w.panic
        THEN Panicked
        ELSE [panic |-> FALSE,
              sql |-> <<"D", "E", "L", "E", "T", "E", " ", "F", "R", "O", "M", " ">>
                        \o Wrap(table).out \o w.sql,
              args |-> w.args]

\* The direction OrderBy stores for a direction argument.
OrderDirectionOf_Raw(direction) == direction

OrderDirectionOf(direction) ==
    IF ToUpper(TrimSpace(direction)) = OrderDesc THEN OrderDesc
    ELSE IF ToUpper(TrimSpace(direction)) = OrderAsc THEN OrderAsc
    ELSE OrderAsc

\* ---- the calls the model makes ------------------------------------------
\* The longest chains of Where/OrWhere and of OrderBy calls on one builder.
MaxWheres == 2
MaxOrders == 2

Id == <<"i", "d">>
UId == <<"u", ".", "i", "d">>
Users == <<"u", "s", "e", "r", "s">>
Name == <<"n", "a", "m", "e">>
BadColumn == <<"x", ";">>
Star == <<"*">>

\* Caller-supplied values, as the text they would print as.
V1 == <<"7">>
V2 == <<"?">>
Values == {V1, V2}
Erased == <<>>

TableInputs == {Users}
SelectInputs == {<<Id, UId>>, <<BadColumn>>}
WhereInputs ==
    {<<Id, <<"=">>, V1>>,
     <<Id, <<" ", "l", "i", "k", "e", " ">>, V2>>,
     <<BadColumn, <<"=">>, V1>>,
     <<Id, <<"=", ";">>, V1>>}
OrWhereInputs == {<<UId, <<"n", "o", "t", " ", "l", "i", "k", "e">>, V2>>}
DirectionInputs ==
    {<<"D", "E", "S", "C">>, <<" ", "d", "e", "s", "c", "\t">>, <<"a", "s", "c">>,
     <<>>, <<"d", "e", "s", "c", ";">>, <<"D", "E", "S", "C", " ", "-", "-">>}
OrderColumns == {Id}
Limits == {0, 10}
Offsets == {0, 5}
WrapInputs ==
    {Star, Id, UId, <<>>, BadColumn, <<"u", ".", ";">>, <<"u", ".", ".", "i">>,
     <<"i", "d", BackQuote>>, <<"*", "*">>, <<"U", "_", "1", ".", "*">>}

\* The maps ExecInsert and ExecUpdate are called with, as sets of entries.
DataMaps ==
    {{},
     {[k |-> Name, v |-> V1]},
     {[k |-> Name, v |-> V2], [k |-> Id, v |-> V1]},
     {[k |-> BadColumn, v |-> V1]}}

\* The orders in which a range loop may visit a map.
IterationOrders(m) ==
    {s \in [1 .. Cardinality(m) -> m] :
        \A i, j \in 1 .. Cardinality(m) : i # j => s[i] # s[j]}

DataInputs == UNION {IterationOrders(m) : m \in DataMaps}

NewBuilder ==
    [table |-> <<>>, columns |-> <<Star>>, wheres |-> <<>>, orders |-> <<>>,
     limit |-> 0, offset |-> 0]

Built(kind) == [kind |-> kind]

NewBuilderCall ==
    /\ qb' = NewBuilder
    /\ lastCall' = Built("NewBuilder")
    /\ UNCHANGED nonSQLVars

TableCall ==
    /\ \E tableName \in TableInputs : qb' = [qb EXCEPT !.table = tableName]
    /\ lastCall' = Built("Table")
    /\ UNCHANGED nonSQLVars

SelectCall ==
    /\ \E columns \in SelectInputs : qb' = [qb EXCEPT !.columns = columns]
    /\ lastCall' = Built("Select")
    /\ UNCHANGED nonSQLVars

WhereCall ==
    /\ Len(qb.wheres) < MaxWheres
    /\ \E in \in WhereInputs :
          qb' = [qb EXCEPT !.wheres = Append(@, [Column |-> in[1], Operator |-> in[2],
                                                  Value |-> in[3], Boolean |-> BoolAnd])]
    /\ lastCall' = Built("Where")
    /\ UNCHANGED nonSQLVars

OrWhereCall ==
    /\ Len(qb.wheres) < MaxWheres
    /\ \E in \in OrWhereInputs :
          qb' = [qb EXCEPT !.wheres = Append(@, [Column |-> in[1], Operator |-> in[2],
                                                  Value |-> in[3], Boolean |-> BoolOr])]
    /\ lastCall' = Built("OrWhere")
    /\ UNCHANGED nonSQLVars

OrderByCall ==
    /\ Len(qb.orders) < MaxOrders
    /\ \E column \in OrderColumns, direction \in DirectionInputs :
          /\ qb' = [qb EXCEPT !.orders =
                        Append(@, [Column |-> column,
                                   Direction |-> OrderDirectionOf(direction)])]
          /\ lastCall' = [kind |-> "OrderBy", column |-> column,
                          direction |-> direction]
    /\ UNCHANGED nonSQLVars

LimitCall ==
    /\ \E limit \in Limits : qb' = [qb EXCEPT !.limit = limit]
    /\ lastCall' = Built("Limit")
    /\ UNCHANGED nonSQLVars

OffsetCall ==
    /\ \E offset \in Offsets : qb' = [qb EXCEPT !.offset = offset]
    /\ lastCall' = Built("Offset")
    /\ UNCHANGED nonSQLVars

ToSQLCall ==
    /\ lastCall' = [kind |-> "ToSQL", data |-> <<>>, result |-> CompileSelect(qb)]
    /\ UNCHANGED <<qb, nonSQLVars>>

\* ExecInsert, ExecUpdate, ExecDelete: the grammar compiles, and unless it
\* panicked the statement and its arguments go to the executor (`queried`).
ExecInsertCall ==
    /\ \E data \in DataInputs :
          lastCall' = [kind |-> "ExecInsert", data |-> data,
                       result |-> CompileInsert(qb.table, data),
                       queried |-> ~CompileInsert(qb.table, data).panic]
    /\ UNCHANGED <<qb, nonSQLVars>>

ExecUpdateCall ==
    /\ \E data \in DataInputs :
          lastCall' = [kind |-> "ExecUpdate", data |-> data,
                       result |-> CompileUpdate(qb.table, data, qb.wheres),
                       queried |-> ~CompileUpdate(qb.table, data, qb.wheres).panic]
    /\ UNCHANGED <<qb, nonSQLVars>>

ExecDeleteCall ==
    /\ lastCall' = [kind |-> "ExecDelete", data |-> <<>>,
                    result |-> CompileDelete(qb.table, qb.wheres),
                    queried |-> ~CompileDelete(qb.table, qb.wheres).panic]
    /\ UNCHANGED <<qb, nonSQLVars>>

\* A direct call of the grammar's Wrap.
WrapCall ==
    /\ \E value \in WrapInputs :
          lastCall' = [kind |-> "Wrap", value |-> value, result |-> Wrap(value)]
    /\ UNCHANGED <<qb, nonSQLVars>>

InitSQL ==
    /\ qb = NewBuilder
    /\ lastCall = Built("NewBuilder")

NextSQL ==
    \/ NewBuilderCall
    \/ TableCall
    \/ SelectCall
    \/ WhereCall
    \/ OrWhereCall
    \/ OrderByCall
    \/ LimitCall
    \/ OffsetCall
    \/ ToSQLCall
    \/ ExecInsertCall
    \/ ExecUpdateCall
    \/ ExecDeleteCall
    \/ WrapCall

(***************************************************************************)
(* ROUTER                                                                  *)
(*                                                                         *)
(* A path and a path segment are character sequences.  A trie is a         *)
(* function from node positions to nodes; the position of a node is the    *)
(* sequence of edges from the root to it, an edge being the key of the     *)
(* children map (a static segment) or the paramChild pointer.  An          *)
(* http.Handler is the nesting wrapMiddleware built: a middleware around   *)
(* the handler next to it, down to the adapted route handler.  Every       *)
(* middleware of the model does its work, calls next once, and returns.    *)
(***************************************************************************)
StaticEdge(part) == <<"children", part>>
ParamEdge == <<"paramChild", <<>>>>
NoEdge == <<"nil", <<>>>>
NoNode == <<NoEdge>>
NoHandler == [nil |-> TRUE]
NoDispatch == [done |-> FALSE]

\* splitPath: the non-empty pieces between slashes.
splitPath(path) == SelectSeq(Split(path, "/"), LAMBDA p : p # <<>>)

isParam(part) == part[1] = "{" /\ part[Len(part)] = "}"

\* currentNode.pathPart[1 : len(currentNode.pathPart)-1]
ParamName(pathPart) == SubSeq(pathPart, 2, Len(pathPart) - 1)

EdgeOf(part) == IF isParam(part) THEN ParamEdge ELSE StaticEdge(part)
EdgePath(parts) == [i \in DOMAIN parts |-> EdgeOf(parts[i])]

RootNode == [pathPart |-> <<"/">>, isParam |-> FALSE, handler |-> NoHandler]
NewNode(part) == [pathPart |-> part, isParam |-> isParam(part), handler |-> NoHandler]

\* adaptHandler
adaptHandler(h) == [h |-> h]

RECURSIVE wrapFrom(_, _, _)
wrapFrom(handler, mws, i) ==
    IF i < 1 THEN handler
    ELSE wrapFrom([mw |-> mws[i], next |-> handler], mws, i - 1)

RECURSIVE wrapUpTo(_, _, _)
wrapUpTo(handler, mws, i) ==
    IF i > Len(mws) THEN handler
    ELSE wrapUpTo([mw |-> mws[i], next |-> handler], mws, i + 1)

wrapMiddleware_Forward(handler, mws) == wrapUpTo(handler, mws, 1)

\* wrapMiddleware: for i := len(middlewares) - 1; i >= 0; i--
wrapMiddleware(handler, mws) == wrapFrom(handler, mws, Len(mws))

\* handler.ServeHTTP: what runs, in order.
RECURSIVE Run(_)
Run(handler) ==
    IF "mw" \in DOMAIN handler
        THEN <<<<"enter", handler.mw>>>> \o Run(handler.next)
                \o <<<<"exit", handler.mw>>>>
        ELSE <<<<"handler", handler.h>>>>

\* The trie of a method, or the root HandleWithGroup creates for it.
TrieIn(trs, method) ==
    IF method \in DOMAIN trs THEN trs[method] ELSE (<<>> :> RootNode)

TrieOf(method) == TrieIn(trees, method)

\* The handler installed at a node, with what it was composed from.
Installed(h, global, group, route) ==
    [nil |-> FALSE, h |-> h, global |-> global, group |-> group, route |-> route,
     serve |-> wrapMiddleware(adaptHandler(h), global \o group \o route)]

\* HandleWithGroup on a router whose tries are trs and whose global
\* middleware is mws: the tries after the registration.
HandleWithGroupOn(trs, mws, method, path, h, groupMiddleware) ==
    LET trie == TrieIn(trs, method)
        parts == splitPath(path)
        edges == EdgePath(parts)
        created == {SubSeq(edges, 1, k) : k \in 0 .. Len(parts)}
        grown == [np \in (DOMAIN trie) \cup created |->
                    IF np \in DOMAIN trie THEN trie[np] ELSE NewNode(parts[Len(np)])]
        final == Installed(h, mws, groupMiddleware, <<>>)
        done == [grown EXCEPT ![edges].handler = final]
    IN  [m \in (DOMAIN trs) \cup {method} |-> IF m = method THEN done ELSE trs[m]]

HandleWithGroup(method, path, h, groupMiddleware) ==
    HandleWithGroupOn(trees, middlewares, method, path, h, groupMiddleware)

NextEdge_ParamFirst(trie, cur, part) ==
    IF Append(cur, ParamEdge) \in DOMAIN trie THEN ParamEdge
    ELSE IF Append(cur, StaticEdge(part)) \in DOMAIN trie THEN StaticEdge(part)
    ELSE NoEdge

NextEdge_StaticOnly(trie, cur, part) ==
    IF Append(cur, StaticEdge(part)) \in DOMAIN trie THEN StaticEdge(part)
    ELSE NoEdge

\* One step of ServeHTTP's loop: the child taken for a request segment.
NextEdge(trie, cur, part) ==
    IF Append(cur, StaticEdge(part)) \in DOMAIN trie THEN StaticEdge(part)
    ELSE IF Append(cur, ParamEdge) \in DOMAIN trie THEN ParamEdge
    ELSE NoEdge

Bind(params, name, part) ==
    [n \in (DOMAIN params) \cup {name} |-> IF n = name THEN part ELSE params[n]]

RECURSIVE Walk(_, _, _, _, _)
Walk(trie, parts, i, cur, params) ==
    IF i > Len(parts) THEN [found |-> TRUE, node |-> cur, params |-> params]
    ELSE LET e == NextEdge(trie, cur, parts[i])
             child == Append(cur, e)
         IN  IF e = NoEdge THEN [found |-> FALSE, node |-> NoNode, params |-> params]
             ELSE IF e = ParamEdge
                THEN Walk(trie, parts, i + 1, child,
                          Bind(params, ParamName(trie[child].pathPart), parts[i]))
             ELSE Walk(trie, parts, i + 1, child, params)

NotFound(method, path) ==
    [done |-> TRUE, method |-> method, path |-> path, status |-> 404,
     node |-> NoNode, handler |-> NoHandler, params |-> <<>>,
     trace |-> <<<<"handler", "NotFoundHandler">>>>]

\* ServeHTTP on a router whose tries are trs: the response and what ran.
ServeHTTPOn(trs, method, path) ==
    IF method \notin DOMAIN trs THEN NotFound(method, path)
    ELSE LET w == Walk(trs[method], splitPath(path), 1, <<>>, <<>>)
         IN  IF ~w.found THEN NotFound(method, path)
             ELSE IF trs[method][w.node].handler = NoHandler
                THEN [NotFound(method, path) EXCEPT !.node = w.node]
             ELSE [done |-> TRUE, method |-> method, path |-> path, status |-> 200,
                   node |-> w.node, handler |-> trs[method][w.node].handler,
                   params |-> w.params,
                   trace |-> Run(trs[method][w.node].handler.serve)]

ServeHTTP_Late(method, path) ==
    LET r == ServeHTTPOn(trees, method, path)
    IN  IF r.status = 200
        THEN [r EXCEPT !.trace =
                Run(wrapMiddleware(adaptHandler(r.handler.h),
                                   middlewares \o r.handler.group \o r.handler.route))]
        ELSE r

ServeHTTP(method, path) == ServeHTTPOn(trees, method, path)

\* ---- the calls the model makes ------------------------------------------
\* The most routes registered on one router, and the most global middleware.
MaxRoutes == 3
MaxGlobal == 2

SegUsers == <<"u", "s", "e", "r", "s">>
SegNew == <<"n", "e", "w">>
SegProfile == <<"p", "r", "o", "f", "i", "l", "e">>
SegEdit == <<"e", "d", "i", "t">>
SegId == <<"{", "i", "d", "}">>
SegName == <<"{", "n", "a", "m", "e", "}">>
Seg42 == <<"4", "2">>

\* "/a/b" for the segments <<a, b>>; "/" for none.
Slashed(parts) ==
    IF parts = <<>> THEN <<"/">>
    ELSE Concat([i \in DOMAIN parts |-> <<"/">> \o parts[i]])

RouteInputs ==
    {[method |-> "GET", path |-> Slashed(<<SegUsers>>)],
     [method |-> "GET", path |-> Slashed(<<SegUsers, SegId>>)],
     [method |-> "GET", path |-> Slashed(<<SegUsers, SegNew>>)],
     [method |-> "GET", path |-> Slashed(<<SegUsers, SegId, SegProfile>>)],
     [method |-> "GET", path |-> Slashed(<<SegUsers, SegNew, SegEdit>>)],
     [method |-> "GET", path |-> Slashed(<<SegUsers, SegName>>)],
     [method |-> "POST", path |-> Slashed(<<SegUsers>>)]}

Handlers == {"h1", "h2"}

RequestMethods == {"GET", "POST"}
RequestPaths ==
    {Slashed(<<>>),
     Slashed(<<SegUsers>>),
     Slashed(<<SegUsers, Seg42>>),
     Slashed(<<SegUsers, SegNew>>),
     Slashed(<<SegUsers, Seg42, SegProfile>>),
     Slashed(<<SegUsers, SegNew, SegProfile>>),
     Slashed(<<SegUsers, SegNew, SegEdit>>),
     <<"/">> \o SegUsers \o <<"/", "/">> \o Seg42 \o <<"/">>}

\* Middleware, by name.
GlobalNames == <<"G1", "G2">>
GroupChains == {<<>>, <<"R1">>}
RouteMiddlewares == {"P1"}
GroupRouteInputs ==
    {[method |-> "GET", path |-> Slashed(<<SegUsers>>)],
     [method |-> "GET", path |-> Slashed(<<SegUsers, SegId>>)]}

RouteKey(method, path) == [method |-> method, parts |-> splitPath(path)]

\* The registered routes, after one more registration.
Registered(method, path, h) ==
    {r \in routes : r.key # RouteKey(method, path)}
        \cup {[key |-> RouteKey(method, path), handler |-> h]}

RouteKeys == {r.key : r \in routes}

\* Router.Handle, through GET, POST, PUT or DELETE.
HandleCall ==
    /\ \E in \in RouteInputs, h \in Handlers :
          /\ \/ Cardinality(RouteKeys) < MaxRoutes
             \/ RouteKey(in.method, in.path) \in RouteKeys
          /\ trees' = HandleWithGroup(in.method, in.path, h, <<>>)
          /\ routes' = Registered(in.method, in.path, h)
    /\ lastDispatch' = NoDispatch
    /\ UNCHANGED <<middlewares, nonRouterVars>>

\* Paths with a parameter segment that has no name.
SegEmpty == <<"{", "}">>
EmptyNameRoutes ==
    {[method |-> "GET", path |-> Slashed(<<SegUsers, SegEmpty>>)],
     [method |-> "GET", path |-> Slashed(<<SegEmpty, SegProfile>>)]}

\* Router.Handle with such a path: HandleWithGroup treats "{}" as it treats
\* every segment in braces.
HandleEmptyNameCall ==
    /\ \E in \in EmptyNameRoutes, h \in Handlers :
          /\ \/ Cardinality(RouteKeys) < MaxRoutes
             \/ RouteKey(in.method, in.path) \in RouteKeys
          /\ trees' = HandleWithGroup(in.method, in.path, h, <<>>)
          /\ routes' = Registered(in.method, in.path, h)
    /\ lastDispatch' = NoDispatch
    /\ UNCHANGED <<middlewares, nonRouterVars>>

\* Router.Use
UseCall ==
    /\ Len(middlewares) < MaxGlobal
    /\ Len(middlewares) < Len(GlobalNames)
    /\ middlewares' = Append(middlewares, GlobalNames[Len(middlewares) + 1])
    /\ lastDispatch' = NoDispatch
    /\ UNCHANGED <<trees, routes, nonRouterVars>>

\* A registration through a group: the group hands its middleware to
\* HandleWithGroup.
HandleWithGroupCall ==
    /\ \E in \in GroupRouteInputs, groupMiddleware \in GroupChains :
          /\ trees' = HandleWithGroup(in.method, in.path, "h1", groupMiddleware)
          /\ routes' = Registered(in.method, in.path, "h1")
    /\ lastDispatch' = NoDispatch
    /\ UNCHANGED <<middlewares, nonRouterVars>>

\* Per-route middleware, added through the handle a registration returns: it
\* goes inside the group's middleware.
MiddlewareCall ==
    /\ \E method \in DOMAIN trees, mw \in RouteMiddlewares :
         \E np \in {n \in DOMAIN trees[method] :
                      /\ trees[method][n].handler # NoHandler
                      /\ trees[method][n].handler.route = <<>>} :
            LET old == trees[method][np].handler
            IN  trees' = [trees EXCEPT ![method][np].handler =
                            Installed(old.h, old.global, old.group, <<mw>>)]
    /\ lastDispatch' = NoDispatch
    /\ UNCHANGED <<middlewares, routes, nonRouterVars>>

ServeHTTPCall ==
    /\ \E method \in RequestMethods, path \in RequestPaths :
          lastDispatch' = ServeHTTP(method, path)
    /\ UNCHANGED <<trees, middlewares, routes, nonRouterVars>>

\* ---- route groups --------------------------------------------------------
\* A group is a prefix and a middleware list.  The model also keeps, for a
\* group derived from another, which group that was and how long its list
\* was then (observers).  Groups are numbered in the order they are made.
MaxGroups == 2
MaxGroupUse == 1

RouterItself == 0
GroupPrefix == Slashed(<<SegUsers>>)
DerivedPrefix == Slashed(<<SegNew>>)
GroupPaths == {Slashed(<<SegId>>)}

\* The middleware handed to the n-th use on group g, and the handler of the
\* routes registered through group g.
GroupMiddlewareNames == <<<<"A1", "A2">>, <<"B1", "B2">>, <<"C1", "C2">>>>
GroupHandlers == <<"gh1", "gh2", "gh3">>

RouterGroup_SharesGlobal(prefix) ==
    [prefix |-> prefix, middlewares |-> middlewares, parent |-> RouterItself,
     inherited |-> 0]

\* Router.Group
RouterGroup(prefix) ==
    [prefix |-> prefix, middlewares |-> <<>>, parent |-> RouterItself,
     inherited |-> 0]

\* Group.Group: parent.prefix + prefix and a copy of the parent's list.
DerivedGroup(p, prefix) ==
    [prefix |-> groups[p].prefix \o prefix, middlewares |-> groups[p].middlewares,
     parent |-> p, inherited |-> Len(groups[p].middlewares)]

OwnUses(g) == Len(groups[g].middlewares) - groups[g].inherited

GroupCall ==
    /\ Len(groups) < MaxGroups
    /\ Len(groups) < Len(GroupHandlers)
    /\ groups' = Append(groups, RouterGroup(GroupPrefix))
    /\ UNCHANGED <<routerVars, nonGroupVars>>

GroupGroupCall ==
    /\ Len(groups) < MaxGroups
    /\ Len(groups) < Len(GroupHandlers)
    /\ \E p \in DOMAIN groups :
          /\ groups[p].parent = RouterItself
          /\ groups' = Append(groups, DerivedGroup(p, DerivedPrefix))
    /\ UNCHANGED <<routerVars, nonGroupVars>>

\* Group.Use: the group's own list grows by one.
GroupUseCall ==
    /\ \E g \in DOMAIN groups :
          /\ OwnUses(g) < MaxGroupUse
          /\ OwnUses(g) < Len(GroupMiddlewareNames[g])
          /\ groups' = [groups EXCEPT ![g].middlewares =
                            Append(@, GroupMiddlewareNames[g][OwnUses(g) + 1])]
    /\ UNCHANGED <<routerVars, nonGroupVars>>

\* Group.GET: the route prefix + path, with the group's list as it is now.
GroupHandleCall ==
    /\ \E g \in DOMAIN groups, path \in GroupPaths :
          /\ trees' = HandleWithGroup("GET", groups[g].prefix \o path,
                                      GroupHandlers[g], groups[g].middlewares)
          /\ routes' = Registered("GET", groups[g].prefix \o path, GroupHandlers[g])
    /\ lastDispatch' = NoDispatch
    /\ UNCHANGED <<middlewares, nonRouterVars>>

NextGroups ==
    \/ UseCall
    \/ HandleWithGroupCall
    \/ GroupCall
    \/ GroupGroupCall
    \/ GroupUseCall
    \/ GroupHandleCall

\* Router.New
InitRouter ==
    /\ trees = <<>>
    /\ middlewares = <<>>
    /\ routes = {}
    /\ lastDispatch = NoDispatch

NextRouter ==
    \/ HandleCall
    \/ ServeHTTPCall

NextEmptyName ==
    \/ HandleCall
    \/ HandleEmptyNameCall
    \/ ServeHTTPCall

NextMiddleware ==
    \/ UseCall
    \/ HandleWithGroupCall
    \/ MiddlewareCall
    \/ ServeHTTPCall

(***************************************************************************)
(* SCANNER                                                                 *)
(*                                                                         *)
(* The scanner with the reclaimed cache.  A record type is the sequence of *)
(* its fields; names, tags and columns are character sequences.  One tick  *)
(* of the clock is fifteen minutes.  getStructFieldMap is followed lock by *)
(* lock: a thread's call stack holds one frame for each call of it that    *)
(* has not returned.  sync.RWMutex is not reentrant: RLock waits while a   *)
(* writer holds the mutex, whoever that writer is.  (That RLock also waits *)
(* behind a writer that is itself waiting is not modelled.)  Two readers   *)
(* that store lastAccess under the read lock are modelled as storing one   *)
(* after the other, in either order.                                       *)
(***************************************************************************)
\* cleanupScannerCache(10*time.Minute, 30*time.Minute): maxAge, in ticks.
ScannerMaxAge == 2

\* The clock of the scanner model stops here.
MaxScanTime == 4

ScanThreads == {"s1", "s2"}

ToLowerChar(c) ==
    IF c \in Range(UpperCase)
        THEN LowerCase[CHOOSE i \in DOMAIN UpperCase : UpperCase[i] = c]
        ELSE c

\* strings.ToLower
ToLower(s) == [i \in 1 .. Len(s) |-> ToLowerChar(s[i])]

NoTag == <<>>
Field(name, tag) ==
    [Name |-> name, Anonymous |-> FALSE, Kind |-> "value", Type |-> "", Tag |-> tag]
Embedded(type, name) ==
    [Name |-> name, Anonymous |-> TRUE, Kind |-> "struct", Type |-> type,
     Tag |-> NoTag]

NameBaseModel == <<"B", "a", "s", "e", "M", "o", "d", "e", "l">>
NameID == <<"I", "D">>
NameCreatedAt == <<"C", "r", "e", "a", "t", "e", "d", "A", "t">>
NameName == <<"N", "a", "m", "e">>
NameEmail == <<"E", "m", "a", "i", "l">>
NameTitle == <<"T", "i", "t", "l", "e">>
NameDraft == <<"D", "r", "a", "f", "t">>
ColId == <<"i", "d">>
ColCreatedAt == <<"c", "r", "e", "a", "t", "e", "d", "_", "a", "t">>
ColName == <<"n", "a", "m", "e">>
ColEmail == <<"e", "m", "a", "i", "l">>
ColTitle == <<"t", "i", "t", "l", "e">>
ColExtra == <<"e", "x", "t", "r", "a">>

\* The record types of the model: User embeds BaseModel; Post embeds
\* nothing, leaves one field untagged and excludes one with the tag "-".
StructTypes ==
    [BaseModel |-> <<Field(NameID, ColId), Field(NameCreatedAt, ColCreatedAt)>>,
     User |-> <<Embedded("BaseModel", NameBaseModel), Field(NameName, ColName),
                Field(NameEmail, ColEmail)>>,
     Post |-> <<Field(NameID, NoTag), Field(NameTitle, ColTitle),
                Field(NameDraft, <<"-">>)>>]

NumField(type) == Len(StructTypes[type])

PutEntry(m, k, v) == [x \in (DOMAIN m) \cup {k} |-> IF x = k THEN v ELSE m[x]]

\* for col, fName := range getStructFieldMap(field.Type) {
\*     mapping[col] = field.Name + "." + fName }
Splice(mapping, field, nested) ==
    [col \in (DOMAIN mapping) \cup (DOMAIN nested) |->
        IF col \in DOMAIN nested THEN field.Name \o <<".">> \o nested[col]
                                 ELSE mapping[col]]

\* One pass of the loop body for a field that is not embedded.
MapField(mapping, field) ==
    IF field.Tag = <<"-">> THEN mapping
    ELSE PutEntry(mapping,
                  IF field.Tag = NoTag THEN ToLower(field.Name) ELSE field.Tag,
                  field.Name)

\* The loop of getStructFieldMap from field i on, up to the next embedded
\* record (whose map a recursive call has to fetch) or to the end.
RECURSIVE DeriveFrom(_, _, _)
DeriveFrom(type, i, mapping) ==
    IF i > NumField(type) THEN [i |-> i, mapping |-> mapping]
    ELSE LET field == StructTypes[type][i]
         IN  IF field.Anonymous
                THEN IF field.Kind = "struct" THEN [i |-> i, mapping |-> mapping]
                     ELSE DeriveFrom(type, i + 1, mapping)
                ELSE DeriveFrom(type, i + 1, MapField(mapping, field))

\* reflect.Value.FieldByName: a field of the record itself, or else a field
\* promoted from an embedded record; <<>> stands for the invalid Value.
FieldByName(type, name) ==
    IF \E i \in 1 .. NumField(type) : StructTypes[type][i].Name = name
        THEN <<name>>
    ELSE LET through == {i \in 1 .. NumField(type) :
                            /\ StructTypes[type][i].Anonymous
                            /\ StructTypes[type][i].Kind = "struct"
                            /\ \E j \in 1 .. NumField(StructTypes[type][i].Type) :
                                  StructTypes[StructTypes[type][i].Type][j].Name = name}
         IN  IF Cardinality(through) = 1
                THEN <<StructTypes[type][CHOOSE i \in through : TRUE].Name, name>>
                ELSE <<>>

\* The record type of the field `name` of `type`, "" when it is no record.
FieldType(type, name) ==
    IF \E i \in 1 .. NumField(type) : StructTypes[type][i].Name = name
        THEN StructTypes[type][CHOOSE i \in 1 .. NumField(type) :
                                  StructTypes[type][i].Name = name].Type
        ELSE ""

\* findEmbeddedField: the walk along the dotted path.
RECURSIVE WalkFields(_, _, _, _)
WalkFields(type, parts, i, path) ==
    IF i > Len(parts) THEN path
    ELSE IF type = "" THEN <<>>
    ELSE IF FieldByName(type, parts[i]) = <<>> THEN <<>>
    ELSE WalkFields(FieldType(type, parts[i]), parts, i + 1,
                    path \o FieldByName(type, parts[i]))

findEmbeddedField(type, name) == WalkFields(type, Split(name, "."), 1, <<>>)

\* CanSet, for an addressable record: the field is exported.
CanSet(path) == \A i \in DOMAIN path : path[i][1] \in Range(UpperCase)

\* The field a column is scanned into: FieldByName, then findEmbeddedField.
FieldFor(type, fieldName) ==
    IF FieldByName(type, fieldName) # <<>> THEN FieldByName(type, fieldName)
    ELSE findEmbeddedField(type, fieldName)

NoScan == [done |-> FALSE]

\* ScanStruct from the return of getStructFieldMap on: the scan arguments
\* and rows.Scan.  `written` sends a field path to the column stored in it,
\* `discarded` are the columns read into a sql.RawBytes.
ScanWith(type, cols, fm) ==
    LET known == {i \in DOMAIN cols : cols[i] \in DOMAIN fm}
        bad == {i \in known : \/ FieldFor(type, fm[cols[i]]) = <<>>
                              \/ ~CanSet(FieldFor(type, fm[cols[i]]))}
    IN  IF bad # {}
            THEN [done |-> TRUE, dest |-> type, cols |-> cols, fieldMap |-> fm,
                  err |-> "field", written |-> <<>>, discarded |-> {}]
            ELSE [done |-> TRUE, dest |-> type, cols |-> cols, fieldMap |-> fm,
                  err |-> "",
                  written |-> [path \in {FieldFor(type, fm[cols[i]]) : i \in known}
                                 |-> cols[CHOOSE i \in known :
                                        /\ FieldFor(type, fm[cols[i]]) = path
                                        /\ \A j \in known :
                                              FieldFor(type, fm[cols[j]]) = path
                                                  => j <= i]],
                  discarded |-> {cols[i] : i \in (DOMAIN cols) \ known}]

\* ScanStruct's answer to a dest that is no pointer to a record.
ScanBadDest(dest) ==
    [done |-> TRUE, dest |-> dest, cols |-> <<>>, fieldMap |-> <<>>,
     err |-> "dest", written |-> <<>>, discarded |-> {}]

\* ---- the calls the scanner model makes ----------------------------------
NotAStruct == "int"
ScanDests == {"User", "Post", "BaseModel", NotAStruct}
RowColumns(dest) ==
    IF dest = "User" THEN {<<ColId, ColName, ColEmail, ColCreatedAt>>}
    ELSE IF dest = "Post" THEN {<<ColId, ColTitle>>, <<ColId, ColTitle, ColExtra>>}
    ELSE IF dest = "BaseModel" THEN {<<ColId, ColCreatedAt>>}
    ELSE {<<>>}

NotScanning == [busy |-> FALSE]
Frame(type) == [type |-> type, pc |-> "rlock", i |-> 0, mapping |-> <<>>, t |-> 0]

Top(th) == scanThreads[th].stack[Len(scanThreads[th].stack)]
At(th, pc) == scanThreads[th].busy /\ Top(th).pc = pc
SetTop(th, frame) ==
    [scanThreads EXCEPT ![th].stack[Len(scanThreads[th].stack)] = frame]

Touched_NewEntry(type, t) ==
    [scannerCache EXCEPT ![type] = [fieldMap |-> <<>>, lastAccess |-> t]]

\* entry.lastAccess = time.Now()
Touched(type, t) == [scannerCache EXCEPT ![type].lastAccess = t]

\* A call of getStructFieldMap returns fm: to ScanStruct, which finishes, or
\* to the call that was deriving the embedding record, which splices fm in
\* and goes on with its loop.
Return(th, fm) ==
    LET stack == scanThreads[th].stack
        n == Len(stack)
    IN  IF n = 1
            THEN /\ lastScan' = ScanWith(scanThreads[th].dest, scanThreads[th].cols, fm)
                 /\ scanThreads' = [scanThreads EXCEPT ![th] = NotScanning]
            ELSE /\ scanThreads' =
                      [scanThreads EXCEPT ![th].stack =
                          Append(SubSeq(stack, 1, n - 2),
                                 [stack[n - 1] EXCEPT
                                    !.mapping = Splice(@,
                                        StructTypes[stack[n - 1].type][stack[n - 1].i],
                                        fm),
                                    !.i = @ + 1])]
                 /\ UNCHANGED lastScan

\* ScanStruct, up to its call of getStructFieldMap.
ScanStructCall ==
    /\ \E th \in ScanThreads, dest \in ScanDests :
          /\ ~scanThreads[th].busy
          /\ IF dest = NotAStruct
                THEN /\ lastScan' = ScanBadDest(dest)
                     /\ UNCHANGED scanThreads
                ELSE /\ \E cols \in RowColumns(dest) :
                          scanThreads' = [scanThreads EXCEPT ![th] =
                              [busy |-> TRUE, dest |-> dest, cols |-> cols,
                               stack |-> <<Frame(dest)>>]]
                     /\ UNCHANGED lastScan
    /\ UNCHANGED <<now, scannerCache, scannerCacheMu, nonScanVars>>

\* scannerCacheMu.RLock()
RLockStep ==
    /\ \E th \in ScanThreads :
          /\ At(th, "rlock")
          /\ scannerCacheMu.writer = NoThread
          /\ scannerCacheMu' = [scannerCacheMu EXCEPT !.readers = @ \cup {th}]
          /\ scanThreads' = SetTop(th, [Top(th) EXCEPT !.pc = "fast"])
    /\ UNCHANGED <<now, scannerCache, lastScan, nonScanVars>>

\* The lookup under the read lock: a hit reads the clock, a miss unlocks.
FastPathStep ==
    /\ \E th \in ScanThreads :
          /\ At(th, "fast")
          /\ IF Top(th).type \in DOMAIN scannerCache
                THEN /\ scanThreads' = SetTop(th, [Top(th) EXCEPT !.pc = "store",
                                                                  !.t = now])
                     /\ UNCHANGED scannerCacheMu
                ELSE /\ scanThreads' = SetTop(th, [Top(th) EXCEPT !.pc = "lock"])
                     /\ scannerCacheMu' = [scannerCacheMu EXCEPT !.readers = @ \ {th}]
    /\ UNCHANGED <<now, scannerCache, lastScan, nonScanVars>>

\* entry.lastAccess = time.Now(); RUnlock; return entry.fieldMap
StoreStep ==
    /\ \E th \in ScanThreads :
          /\ At(th, "store")
          /\ scannerCache' = Touched(Top(th).type, Top(th).t)
          /\ scannerCacheMu' = [scannerCacheMu EXCEPT !.readers = @ \ {th}]
          /\ Return(th, scannerCache[Top(th).type].fieldMap)
    /\ UNCHANGED <<now, nonScanVars>>

\* scannerCacheMu.Lock(), with the Unlock deferred
LockStep ==
    /\ \E th \in ScanThreads :
          /\ At(th, "lock")
          /\ scannerCacheMu.writer = NoThread
          /\ scannerCacheMu.readers = {}
          /\ scannerCacheMu' = [scannerCacheMu EXCEPT !.writer = th]
          /\ scanThreads' = SetTop(th, [Top(th) EXCEPT !.pc = "slow"])
    /\ UNCHANGED <<now, scannerCache, lastScan, nonScanVars>>

\* Under the write lock: the second lookup, then the loop over the fields.
\* The loop stops at an embedded record to call getStructFieldMap for it;
\* at its end the entry is stored and the deferred Unlock runs.
SlowPathStep ==
    /\ \E th \in ScanThreads :
          /\ At(th, "slow")
          /\ LET f == Top(th)
                 d == DeriveFrom(f.type, IF f.i = 0 THEN 1 ELSE f.i, f.mapping)
             IN  IF f.i = 0 /\ f.type \in DOMAIN scannerCache
                    THEN /\ scannerCache' = Touched(f.type, now)
                         /\ scannerCacheMu' = [scannerCacheMu EXCEPT !.writer = NoThread]
                         /\ Return(th, scannerCache[f.type].fieldMap)
                 ELSE IF d.i <= NumField(f.type)
                    THEN /\ scanThreads' =
                              [scanThreads EXCEPT ![th].stack =
                                  Append(SubSeq(@, 1, Len(@) - 1),
                                         [f EXCEPT !.i = d.i, !.mapping = d.mapping])
                                    \o <<Frame(StructTypes[f.type][d.i].Type)>>]
                         /\ UNCHANGED <<scannerCache, scannerCacheMu, lastScan>>
                 ELSE /\ scannerCache' =
                            PutEntry(scannerCache, f.type,
                                     [fieldMap |-> d.mapping, lastAccess |-> now])
                      /\ scannerCacheMu' = [scannerCacheMu EXCEPT !.writer = NoThread]
                      /\ Return(th, d.mapping)
    /\ UNCHANGED <<now, nonScanVars>>

cleanupScannerCache_OnePerRun(cache, t) ==
    LET old == {typ \in DOMAIN cache : t - cache[typ].lastAccess > ScannerMaxAge}
        gone == IF old = {} THEN {} ELSE {CHOOSE typ \in old : TRUE}
    IN  [typ \in (DOMAIN cache) \ gone |-> cache[typ]]

\* The body of cleanupScannerCache's loop, between Lock and Unlock.
cleanupScannerCache(cache, t) ==
    [typ \in {typ \in DOMAIN cache : ~(t - cache[typ].lastAccess > ScannerMaxAge)}
        |-> cache[typ]]

\* One run of the reaper: it takes the write lock for the whole pass.
ScannerCleanupRun ==
    /\ scannerCacheMu.writer = NoThread
    /\ scannerCacheMu.readers = {}
    /\ scannerCache' = cleanupScannerCache(scannerCache, now)
    /\ UNCHANGED <<now, scannerCacheMu, scanThreads, lastScan, nonScanVars>>

TickScanner ==
    /\ now < MaxScanTime
    /\ Tick
    /\ UNCHANGED <<scanVars, nonScanVars>>

InitScanner ==
    /\ scannerCache = <<>>
    /\ scannerCacheMu = [writer |-> NoThread, readers |-> {}]
    /\ scanThreads = [th \in ScanThreads |-> NotScanning]
    /\ lastScan = NoScan

NextScanner ==
    \/ ScanStructCall
    \/ RLockStep
    \/ FastPathStep
    \/ StoreStep
    \/ LockStep
    \/ SlowPathStep
    \/ ScannerCleanupRun
    \/ TickScanner

(***************************************************************************)
(* TERMINAL READ OPERATIONS OF THE QUERY BUILDER                           *)
(*                                                                         *)
(* One goroutine uses the builder: while it is inside First it makes no    *)
(* other call.  The executor is the environment: Query fails or returns a  *)
(* row stream, and closing the stream may fail.  A row is a name; the      *)
(* cursor is the number of rows.Next calls that returned true.             *)
(***************************************************************************)
\* The goroutine that uses the builder.
QueryThread == "s1"

\* The row streams the executor may hand back.
RowStreams == {<<>>, <<"row1">>, <<"row1", "row2">>}

\* The builder is inside a terminal read operation.
ReadBusy == lastCall.kind \in {"First", "Get"} /\ ~lastCall.done

\* What First leaves when it returns or panics.
\*   outcome: "panic" (the grammar panicked), "error" (Query failed),
\*   "not-found" (sql.ErrNoRows), "scanned" (ScanStruct returned nil),
\*   "scan-error" (ScanStruct returned an error), "close-panic" (the deferred
\*   function panicked with the error of rows.Close).
FirstResult(in, compiled, outcome, cursor, scan) ==
    [kind |-> "First", done |-> TRUE, limitBefore |-> in.limitBefore,
     dest |-> in.dest, cols |-> in.cols, rows |-> in.rows,
     queryErr |-> in.queryErr, closeErr |-> in.closeErr,
     result |-> compiled,
     queried |-> ~compiled.panic,
     closed |-> ~compiled.panic /\ ~in.queryErr,
     cursor |-> cursor, scan |-> scan, outcome |-> outcome]

\* The deferred function: rows.Close(), and a panic if it fails.
AfterClose(in, outcome) == IF in.closeErr THEN "close-panic" ELSE outcome

\* qb.Limit(1)
FirstLimit(q) == [q EXCEPT !.limit = 1]

\* The executor's answers to an operation: it is asked only when the grammar
\* has compiled the statement, and when it is not asked it gives `none`.
Asked(compiled, answers, none) == IF compiled.panic THEN {none} ELSE answers

\* First up to its call of ScanStruct; it ends here when the grammar
\* panics, Query fails, the stream has no row or dest is no record.
FirstCall ==
    /\ ~ReadBusy
    /\ ~scanThreads[QueryThread].busy
    /\ \E compiled \in {CompileSelect(FirstLimit(qb))}, dest \in ScanDests :
        \E cols \in RowColumns(dest),
           rows \in Asked(compiled, RowStreams, <<>>),
           queryErr \in Asked(compiled, BOOLEAN, FALSE),
           closeErr \in Asked(compiled, BOOLEAN, FALSE) :
          LET in == [limitBefore |-> qb.limit, dest |-> dest, cols |-> cols,
                     rows |-> rows, queryErr |-> queryErr, closeErr |-> closeErr]
          IN  /\ qb' = FirstLimit(qb)
              /\ IF compiled.panic
                    THEN /\ lastCall' = FirstResult(in, compiled, "panic", 0, NoScan)
                         /\ UNCHANGED scanThreads
                 ELSE IF queryErr
                    THEN /\ lastCall' = FirstResult(in, compiled, "error", 0, NoScan)
                         /\ UNCHANGED scanThreads
                 ELSE IF rows = <<>>
                    THEN /\ lastCall' = FirstResult(in, compiled,
                                                    AfterClose(in, "not-found"), 0, NoScan)
                         /\ UNCHANGED scanThreads
                 ELSE IF dest = NotAStruct
                    THEN /\ lastCall' = FirstResult(in, compiled,
                                                    AfterClose(in, "scan-error"), 1,
                                                    ScanBadDest(dest))
                         /\ UNCHANGED scanThreads
                 ELSE /\ lastCall' = [FirstResult(in, compiled, "", 1, NoScan)
                                         EXCEPT !.done = FALSE, !.closed = FALSE]
                      /\ scanThreads' = [scanThreads EXCEPT ![QueryThread] =
                            [busy |-> TRUE, dest |-> dest, cols |-> cols,
                             stack |-> <<Frame(dest)>>]]
    /\ lastScan' = NoScan
    /\ UNCHANGED <<scannerCache, scannerCacheMu, nonQueryVars>>

\* ScanStruct has returned: First returns its result through the deferred
\* close.
FirstReturn ==
    /\ ReadBusy
    /\ lastCall.kind = "First"
    /\ ~scanThreads[QueryThread].busy
    /\ lastScan.done
    /\ lastCall' = [lastCall EXCEPT
                      !.done = TRUE,
                      !.closed = TRUE,
                      !.scan = lastScan,
                      !.outcome = AfterClose(lastCall,
                                             IF lastScan.err = "" THEN "scanned"
                                                                  ELSE "scan-error")]
    /\ UNCHANGED <<qb, scanVars, nonQueryVars>>

\* ---- Get ------------------------------------------------------------------
\* Get's dest names the record type of the slice it points to; NotASlice is
\* a dest that is no pointer to a slice.
NotASlice == "string"
GetDests == ScanDests \cup {NotASlice}

\* What Get leaves when it returns or panics.  The outcomes are those of
\* First, and "rows-error" (ScanSlice returned rows.Err()); `appended` is
\* the number of records put into the slice.
GetResult(in, compiled, outcome) ==
    [kind |-> "Get", done |-> TRUE, dest |-> in.dest, cols |-> in.cols,
     rows |-> in.rows, queryErr |-> in.queryErr, closeErr |-> in.closeErr,
     rowsErr |-> in.rowsErr,
     result |-> compiled,
     queried |-> ~compiled.panic,
     closed |-> ~compiled.panic /\ ~in.queryErr,
     cursor |-> 0, appended |-> 0, scan |-> NoScan, outcome |-> outcome]

\* ScanSlice's loop from rows.Next() on: the next row goes to ScanStruct,
\* and after the last row ScanSlice returns rows.Err() through the deferred
\* close.
GetLoop(call) ==
    IF call.cursor < Len(call.rows)
        THEN IF call.dest = NotAStruct
                THEN /\ lastCall' = [call EXCEPT
                                        !.done = TRUE, !.closed = TRUE,
                                        !.cursor = @ + 1,
                                        !.scan = ScanBadDest(call.dest),
                                        !.outcome = AfterClose(call, "scan-error")]
                     /\ UNCHANGED scanThreads
                ELSE /\ lastCall' = [call EXCEPT !.done = FALSE, !.closed = FALSE,
                                                 !.cursor = @ + 1]
                     /\ scanThreads' = [scanThreads EXCEPT ![QueryThread] =
                            [busy |-> TRUE, dest |-> call.dest, cols |-> call.cols,
                             stack |-> <<Frame(call.dest)>>]]
        ELSE /\ lastCall' = [call EXCEPT
                                !.done = TRUE, !.closed = TRUE,
                                !.outcome = AfterClose(call,
                                                IF call.rowsErr THEN "rows-error"
                                                                ELSE "scanned")]
             /\ UNCHANGED scanThreads

\* Get up to ScanSlice's first call of ScanStruct; it ends here when the
\* grammar panics, Query fails, dest is no slice pointer or there is no row.
GetCall ==
    /\ ~ReadBusy
    /\ ~scanThreads[QueryThread].busy
    /\ \E compiled \in {CompileSelect(qb)}, dest \in GetDests :
        \E cols \in RowColumns(dest),
           rows \in Asked(compiled, RowStreams, <<>>),
           queryErr \in Asked(compiled, BOOLEAN, FALSE),
           closeErr \in Asked(compiled, BOOLEAN, FALSE),
           rowsErr \in Asked(compiled, BOOLEAN, FALSE) :
          LET in == [dest |-> dest, cols |-> cols, rows |-> rows,
                     queryErr |-> queryErr, closeErr |-> closeErr,
                     rowsErr |-> rowsErr]
          IN  IF compiled.panic
                 THEN /\ lastCall' = GetResult(in, compiled, "panic")
                      /\ UNCHANGED scanThreads
              ELSE IF queryErr
                 THEN /\ lastCall' = GetResult(in, compiled, "error")
                      /\ UNCHANGED scanThreads
              ELSE IF dest = NotASlice
                 THEN /\ lastCall' = GetResult(in, compiled,
                                               AfterClose(in, "scan-error"))
                      /\ UNCHANGED scanThreads
              ELSE GetLoop(GetResult(in, compiled, ""))
    /\ lastScan' = NoScan
    /\ UNCHANGED <<qb, scannerCache, scannerCacheMu, nonQueryVars>>

\* ScanStruct has returned to ScanSlice: an error ends Get, a scanned record
\* is appended and the loop goes on.
GetNext ==
    /\ ReadBusy
    /\ lastCall.kind = "Get"
    /\ ~scanThreads[QueryThread].busy
    /\ lastScan.done
    /\ IF lastScan.err # ""
          THEN /\ lastCall' = [lastCall EXCEPT
                                  !.done = TRUE, !.closed = TRUE,
                                  !.scan = lastScan,
                                  !.outcome = AfterClose(lastCall, "scan-error")]
               /\ UNCHANGED scanThreads
          ELSE GetLoop([lastCall EXCEPT !.scan = lastScan, !.appended = @ + 1])
    /\ lastScan' = NoScan
    /\ UNCHANGED <<qb, scannerCache, scannerCacheMu, nonQueryVars>>

\* The calls that build the query, made between terminal operations.
ChainCall ==
    /\ ~ReadBusy
    /\ \/ NewBuilderCall
       \/ TableCall
       \/ SelectCall
       \/ LimitCall
       \/ OffsetCall

\* The calls that put identifiers and operators into the query state.
BuildCall ==
    /\ ~ReadBusy
    /\ \/ NewBuilderCall
       \/ TableCall
       \/ SelectCall
       \/ WhereCall

\* The terminal write operations, made between terminal reads.
ExecCall ==
    /\ ~ReadBusy
    /\ \/ ExecInsertCall
       \/ ExecUpdateCall
       \/ ExecDeleteCall

NextTerminal ==
    \/ BuildCall
    \/ ExecCall
    \/ FirstCall
    \/ FirstReturn
    \/ GetCall
    \/ GetNext
    \/ RLockStep
    \/ FastPathStep
    \/ StoreStep
    \/ LockStep
    \/ SlowPathStep

NextQuery ==
    \/ ChainCall
    \/ FirstCall
    \/ FirstReturn
    \/ GetCall
    \/ GetNext
    \/ RLockStep
    \/ FastPathStep
    \/ StoreStep
    \/ LockStep
    \/ SlowPathStep

(***************************************************************************)
(* FILE CACHE                                                              *)
(*                                                                         *)
(* pkg/cache/file_cache.go.  One file per key, holding {value, expires_at} *)
(* as JSON; every operation takes FileCache.mu, a sync.RWMutex, which is   *)
(* not reentrant: RLock waits while a writer holds the lock, and Lock      *)
(* waits while anyone holds it, the caller itself included.  The calls are *)
(* modelled as call stacks, one step per lock operation and one per        *)
(* critical section.  The file system does not fail here (os.ReadFile,     *)
(* os.WriteFile and json.Marshal succeed).  One tick is one second.        *)
(***************************************************************************)
MaxCacheTime == 2

CacheThreads == {"c1", "c2"}
CacheKeys == {"counter"}
CacheDeltas == {1, 2}
CacheTTLs == {0, 1}

\* A cached value as Get hands it back after the JSON round trip: a number
\* (float64) or something else (here a string).  Absent is Get's nil.
Num(n) == [kind |-> "number", n |-> n]
Text == [kind |-> "string", n |-> 0]
Absent == [kind |-> "nil", n |-> 0]
CacheValues == {Num(1), Text}

NotCaching == [busy |-> FALSE]
NoCacheCall == [done |-> FALSE]

\* A frame of a call: Get starts at its RLock, Set and Increment at Lock.
FCFrame(fn, key, value, ttl) ==
    [fn |-> fn, pc |-> IF fn = "Get" THEN "rlock" ELSE "lock",
     key |-> key, value |-> value, ttl |-> ttl, got |-> Absent]

FCTop(th) == fcThreads[th].stack[Len(fcThreads[th].stack)]

FCAt(th, fn, pc) ==
    /\ fcThreads[th].busy
    /\ FCTop(th).fn = fn
    /\ FCTop(th).pc = pc

FCPush(th, frame) ==
    [fcThreads EXCEPT ![th].stack = Append(@, frame)]

\* entry.ExpiresAt > 0 && time.Now().Unix() > entry.ExpiresAt
FCExpired(entry, t) == entry.ExpiresAt > 0 /\ t > entry.ExpiresAt

\* The body of Get under the read lock: a miss is nil, an expired file is
\* removed and is nil, else the stored value.
FCGetValue(files, key, t) ==
    IF key \notin DOMAIN files THEN Absent
    ELSE IF FCExpired(files[key], t) THEN Absent
    ELSE files[key].Value

FCGetFiles(files, key, t) ==
    IF key \in DOMAIN files /\ FCExpired(files[key], t)
    THEN [k \in DOMAIN files \ {key} |-> files[k]]
    ELSE files

\* The body of Set under the write lock: ttl 0 is no expiry.
FCSetFiles(files, key, value, ttl, t) ==
    [k \in DOMAIN files \cup {key} |->
        IF k = key
        THEN [Value |-> value, ExpiresAt |-> IF ttl > 0 THEN t + ttl ELSE 0]
        ELSE files[k]]

\* if floatVal, ok := currentVal.(float64); ok { current = int64(floatVal) }
FCCurrent(got) == IF got.kind = "number" THEN got.n ELSE 0

\* A call returns: to the caller's frame, which goes on, or to the client.
FCReturn(th, result) ==
    LET stack == fcThreads[th].stack
        n == Len(stack)
    IN  IF n = 1
        THEN /\ fcThreads' = [fcThreads EXCEPT ![th] = NotCaching]
             /\ lastCacheCall' =
                    [done |-> TRUE, thread |-> th, op |-> fcThreads[th].op,
                     key |-> stack[1].key, arg |-> fcThreads[th].arg,
                     before |-> fcThreads[th].before, result |-> result]
        ELSE /\ fcThreads' =
                    [fcThreads EXCEPT ![th].stack =
                        [SubSeq(stack, 1, n - 1) EXCEPT ![n - 1] =
                            IF stack[n].fn = "Get"
                            THEN [@ EXCEPT !.got = result, !.pc = "afterGet"]
                            ELSE [@ EXCEPT !.pc = "afterSet"]]]
             /\ UNCHANGED lastCacheCall

\* A client calls Get, Set, Increment or Decrement.  Decrement(key, d) is
\* Increment(key, -d).  "before" is for the observer: the counter the key
\* holds when the call takes the write lock, 0 when it holds no number.
FileCacheCall ==
    \E th \in CacheThreads, key \in CacheKeys,
       op \in {"Get", "Set", "Increment", "Decrement"},
       value \in CacheValues, d \in CacheDeltas, ttl \in CacheTTLs :
        /\ ~fcThreads[th].busy
        /\ op = "Get" => value = Text /\ d = 1 /\ ttl = 0
        /\ op = "Set" => d = 1
        /\ op \in {"Increment", "Decrement"} => value = Text /\ ttl = 0
        /\ fcThreads' =
              [fcThreads EXCEPT ![th] =
                  [busy |-> TRUE, op |-> op,
                   arg |-> IF op = "Decrement" THEN 0 - d ELSE d,
                   before |-> 0,
                   stack |->
                      << CASE op = "Get" -> FCFrame("Get", key, Absent, 0)
                           [] op = "Set" -> FCFrame("Set", key, value, ttl)
                           [] op = "Increment" ->
                                  FCFrame("Increment", key, Num(d), 0)
                           [] op = "Decrement" ->
                                  FCFrame("Increment", key, Num(0 - d), 0) >>]]
        /\ UNCHANGED <<now, fcFiles, fcMu, lastCacheCall, nonCacheVars>>

\* f.mu.RLock(): waits while a writer holds the lock.
FileCacheRLock ==
    \E th \in CacheThreads :
        /\ FCAt(th, "Get", "rlock")
        /\ fcMu.writer = NoThread
        /\ fcMu' = [fcMu EXCEPT !.readers = @ \cup {th}]
        /\ fcThreads' = [fcThreads EXCEPT
                            ![th].stack[Len(fcThreads[th].stack)].pc = "body"]
        /\ UNCHANGED <<now, fcFiles, lastCacheCall, nonCacheVars>>

\* f.mu.Lock(): waits while anyone holds the lock.
FileCacheLock ==
    \E th \in CacheThreads :
        /\ FCAt(th, "Set", "lock") \/ FCAt(th, "Increment", "lock")
        /\ fcMu.writer = NoThread
        /\ fcMu.readers = {}
        /\ fcMu' = [fcMu EXCEPT !.writer = th]
        /\ fcThreads' = [fcThreads EXCEPT
                            ![th].stack[Len(fcThreads[th].stack)].pc = "body",
                            ![th].before =
                                FCCurrent(FCGetValue(fcFiles, FCTop(th).key,
                                                     now))]
        /\ UNCHANGED <<now, fcFiles, lastCacheCall, nonCacheVars>>

\* One critical section, or one call made from inside Increment.
\*   Get: read the file, RUnlock, return the value.
\*   Set: write the file, Unlock, return.
\*   Increment under its Lock: call f.Get(key); with its value compute
\*   newVal and call f.Set(key, newVal, 0); then Unlock and return newVal.
FileCacheStep ==
    \E th \in CacheThreads :
        /\ fcThreads[th].busy
        /\ LET top == FCTop(th)
           IN  CASE top.fn = "Get" /\ top.pc = "body" ->
                      /\ fcFiles' = FCGetFiles(fcFiles, top.key, now)
                      /\ fcMu' = [fcMu EXCEPT !.readers = @ \ {th}]
                      /\ FCReturn(th, FCGetValue(fcFiles, top.key, now))
                 [] top.fn = "Set" /\ top.pc = "body" ->
                      /\ fcFiles' = FCSetFiles(fcFiles, top.key, top.value,
                                               top.ttl, now)
                      /\ fcMu' = [fcMu EXCEPT !.writer = NoThread]
                      /\ FCReturn(th, Absent)
                 [] top.fn = "Increment" /\ top.pc = "body" ->
                      /\ fcThreads' =
                            FCPush(th, FCFrame("Get", top.key, Absent, 0))
                      /\ UNCHANGED <<fcFiles, fcMu, lastCacheCall>>
                 [] top.fn = "Increment" /\ top.pc = "afterGet" ->
                      /\ fcThreads' =
                            FCPush(th, FCFrame("Set", top.key,
                                       Num(FCCurrent(top.got) + top.value.n),
                                       0))
                      /\ UNCHANGED <<fcFiles, fcMu, lastCacheCall>>
                 [] top.fn = "Increment" /\ top.pc = "afterSet" ->
                      /\ fcMu' = [fcMu EXCEPT !.writer = NoThread]
                      /\ FCReturn(th, Num(FCCurrent(top.got) + top.value.n))
                      /\ UNCHANGED fcFiles
                 [] OTHER -> FALSE
        /\ UNCHANGED <<now, nonCacheVars>>

\* One pass of the garbage collector: the write lock for the whole walk,
\* every expired file removed.
cleanExpiredFiles ==
    /\ fcMu.writer = NoThread
    /\ fcMu.readers = {}
    /\ fcFiles' = [k \in {key \in DOMAIN fcFiles :
                            ~FCExpired(fcFiles[key], now)} |-> fcFiles[k]]
    /\ fcFiles' # fcFiles
    /\ UNCHANGED <<now, fcMu, fcThreads, lastCacheCall, nonCacheVars>>

TickFileCache ==
    /\ now < MaxCacheTime
    /\ Tick
    /\ UNCHANGED <<cacheVars, nonCacheVars>>

InitFileCache ==
    /\ fcFiles = <<>>
    /\ fcMu = [writer |-> NoThread, readers |-> {}]
    /\ fcThreads = [th \in CacheThreads |-> NotCaching]
    /\ lastCacheCall = NoCacheCall

NextFileCache ==
    \/ FileCacheCall
    \/ FileCacheRLock
    \/ FileCacheLock
    \/ FileCacheStep
    \/ cleanExpiredFiles
    \/ TickFileCache

(***************************************************************************)
(* BACKGROUND REAPERS AND SHUTDOWN                                         *)
(*                                                                         *)
(* Every RateLimit middleware starts a goroutine running its limiter's     *)
(* cleanup, the scanner starts cleanupScannerCache, and a file cache       *)
(* starts its garbage collection.  Each of them is a loop over a ticker's  *)
(* channel.  main waits for a signal and then runs the teardown steps.     *)
(* The loops' bodies are abstracted to a count of their runs.              *)
(***************************************************************************)
Limiters == {"limiter1", "limiter2"}
ScannerReaper == "scanner"
FileCacheGC == "fileCacheGC"
Reapers == Limiters \cup {ScannerReaper, FileCacheGC}

CacheDrivers == {"memory", "file", "redis"}

\* The runs of one reaper's loop body that the model follows.
MaxReaperRuns == 2

\* The positions of main.
TeardownSteps ==
    <<"serving", "httpShutdown", "stopLimiters", "stopScanner", "stopFileCache",
      "closeRedis", "closeDB", "returned">>

\* RateLimit: go limiter.cleanup(10 * time.Minute)
RateLimitCall ==
    /\ orchestrator = "serving"
    /\ \E r \in Limiters :
          /\ reapers[r] = "notStarted"
          /\ reapers' = [reapers EXCEPT ![r] = "running"]
    /\ UNCHANGED <<orchestrator, cacheDriver, stopSignals, reaperRuns, teardownLog,
                   nonShutdownVars>>

\* One iteration of `for range ticker.C` in RateLimiter.cleanup.  The loop
\* has no other exit: the ticker's channel is never closed.
LimiterReaperRun ==
    /\ \E r \in Limiters :
          /\ reapers[r] = "running"
          /\ reaperRuns[r] < MaxReaperRuns
          /\ reaperRuns' = [reaperRuns EXCEPT ![r] = @ + 1]
    /\ UNCHANGED <<orchestrator, cacheDriver, reapers, stopSignals, teardownLog,
                   nonShutdownVars>>

\* One iteration of `for range ticker.C` in cleanupScannerCache.
ScannerReaperRun ==
    /\ reapers[ScannerReaper] = "running"
    /\ reaperRuns[ScannerReaper] < MaxReaperRuns
    /\ reaperRuns' = [reaperRuns EXCEPT ![ScannerReaper] = @ + 1]
    /\ UNCHANGED <<orchestrator, cacheDriver, reapers, stopSignals, teardownLog,
                   nonShutdownVars>>

\* One iteration of `for range ticker.C` in FileCache.startGarbageCollection.
FileCacheGCRun ==
    /\ reapers[FileCacheGC] = "running"
    /\ reaperRuns[FileCacheGC] < MaxReaperRuns
    /\ reaperRuns' = [reaperRuns EXCEPT ![FileCacheGC] = @ + 1]
    /\ UNCHANGED <<orchestrator, cacheDriver, reapers, stopSignals, teardownLog,
                   nonShutdownVars>>

Logged(step, failed) == Append(teardownLog, [step |-> step, failed |-> failed])

\* <-quit
SignalReceived ==
    /\ orchestrator = "serving"
    /\ orchestrator' = "httpShutdown"
    /\ UNCHANGED <<cacheDriver, reapers, stopSignals, reaperRuns, teardownLog,
                   nonShutdownVars>>

\* srv.Shutdown(shutdownCtx): it returns an error when the deadline passes.
HTTPShutdown ==
    /\ orchestrator = "httpShutdown"
    /\ \E failed \in BOOLEAN : teardownLog' = Logged("httpShutdown", failed)
    /\ orchestrator' = "stopLimiters"
    /\ UNCHANGED <<cacheDriver, reapers, stopSignals, reaperRuns, nonShutdownVars>>

\* middleware.StopAllLimiters(): every started limiter is signalled to stop.
StopAllLimiters ==
    /\ orchestrator = "stopLimiters"
    /\ stopSignals' = stopSignals \cup {r \in Limiters : reapers[r] # "notStarted"}
    /\ teardownLog' = Logged("stopLimiters", FALSE)
    /\ orchestrator' = "stopScanner"
    /\ UNCHANGED <<cacheDriver, reapers, reaperRuns, nonShutdownVars>>

\* scanner.Stop(): the scanner-cache reaper is signalled to stop.
ScannerStop ==
    /\ orchestrator = "stopScanner"
    /\ stopSignals' = stopSignals \cup {ScannerReaper}
    /\ teardownLog' = Logged("stopScanner", FALSE)
    /\ orchestrator' = "stopFileCache"
    /\ UNCHANGED <<cacheDriver, reapers, reaperRuns, nonShutdownVars>>

\* if cfg.Cache.Driver == "file" { fc.Stop() }
FileCacheStop ==
    /\ orchestrator = "stopFileCache"
    /\ IF cacheDriver = "file"
          THEN /\ stopSignals' = stopSignals \cup {FileCacheGC}
               /\ teardownLog' = Logged("stopFileCache", FALSE)
          ELSE UNCHANGED <<stopSignals, teardownLog>>
    /\ orchestrator' = "closeRedis"
    /\ UNCHANGED <<cacheDriver, reapers, reaperRuns, nonShutdownVars>>

RedisClose_Fatal ==
    /\ orchestrator = "closeRedis"
    /\ IF cacheDriver = "redis"
          THEN \E failed \in BOOLEAN :
                  /\ teardownLog' = Logged("closeRedis", failed)
                  /\ orchestrator' = IF failed THEN "returned" ELSE "closeDB"
          ELSE /\ UNCHANGED teardownLog
               /\ orchestrator' = "closeDB"
    /\ UNCHANGED <<cacheDriver, reapers, stopSignals, reaperRuns, nonShutdownVars>>

\* if cfg.Cache.Driver == "redis" { rc.Close() }
RedisClose ==
    /\ orchestrator = "closeRedis"
    /\ IF cacheDriver = "redis"
          THEN \E failed \in BOOLEAN : teardownLog' = Logged("closeRedis", failed)
          ELSE UNCHANGED teardownLog
    /\ orchestrator' = "closeDB"
    /\ UNCHANGED <<cacheDriver, reapers, stopSignals, reaperRuns, nonShutdownVars>>

DBClose_Early ==
    /\ orchestrator \in {"stopLimiters", "closeDB"}
    /\ \E failed \in BOOLEAN : teardownLog' = Logged("closeDB", failed)
    /\ orchestrator' = "returned"
    /\ UNCHANGED <<cacheDriver, reapers, stopSignals, reaperRuns, nonShutdownVars>>

\* db.Close(), and main returns.
DBClose ==
    /\ orchestrator = "closeDB"
    /\ \E failed \in BOOLEAN : teardownLog' = Logged("closeDB", failed)
    /\ orchestrator' = "returned"
    /\ UNCHANGED <<cacheDriver, reapers, stopSignals, reaperRuns, nonShutdownVars>>

\* The process with its server up: the scanner's reaper was started when the
\* package was loaded, the file cache's with the cache.
InitShutdown ==
    /\ orchestrator = "serving"
    /\ cacheDriver \in CacheDrivers
    /\ reapers = [r \in Reapers |->
                    IF r = ScannerReaper \/ (r = FileCacheGC /\ cacheDriver = "file")
                        THEN "running" ELSE "notStarted"]
    /\ stopSignals = {}
    /\ reaperRuns = [r \in Reapers |-> 0]
    /\ teardownLog = <<>>

\* No process: nothing is started.
ParkedShutdown ==
    /\ orchestrator = "serving"
    /\ cacheDriver = "memory"
    /\ reapers = [r \in Reapers |-> "notStarted"]
    /\ stopSignals = {}
    /\ reaperRuns = [r \in Reapers |-> 0]
    /\ teardownLog = <<>>

NextShutdown ==
    \/ RateLimitCall
    \/ LimiterReaperRun
    \/ ScannerReaperRun
    \/ FileCacheGCRun
    \/ SignalReceived
    \/ HTTPShutdown
    \/ StopAllLimiters
    \/ ScannerStop
    \/ FileCacheStop
    \/ RedisClose
    \/ DBClose

(***************************************************************************)
(* SPECIFICATIONS                                                          *)
(***************************************************************************)
\* No limiter has been constructed.
ParkedRL ==
    /\ maxRequests = 0
    /\ windowInSeconds = 0
    /\ buckets = <<>>
    /\ lastAllow = NoCall
    /\ winKey = ""
    /\ winStart = 0
    /\ winCount = 0

InitRL ==
    /\ maxRequests \in Capacities
    /\ windowInSeconds \in Windows
    /\ buckets = <<>>
    /\ lastAllow = NoCall
    /\ winKey \in Keys
    /\ winStart = 0
    /\ winCount = 0

\* What the constructors leave: no group, an empty scanner cache, no response.
InitRest ==
    /\ groups = <<>>
    /\ InitScanner
    /\ InitFileCache
    /\ InitConc
    /\ burst = <<>>

Init ==
    /\ now = 0
    /\ InitRL
    /\ InitCSRF
    /\ InitSQL
    /\ InitRouter
    /\ ParkedShutdown
    /\ InitRest

NextRL ==
    \/ AllowCall
    \/ cleanupRun
    \/ MarkInterval
    \/ TickRL

SpecRL == Init /\ [][NextRL]_vars

\* Nothing but the constructors has run.
Fresh ==
    /\ now = 0
    /\ ParkedRL
    /\ InitCSRF
    /\ InitSQL
    /\ InitRouter
    /\ InitRest

InitOnlyCSRF == Fresh /\ ParkedShutdown

SpecCSRF == InitOnlyCSRF /\ [][NextCSRF]_vars

\* The CSRF model with its scheduling: the clock goes on, and a request
\* that entered the middleware is served to the end.  The arrival of a
\* request is up to the clients: nothing makes one arrive.
SpecCSRFLive ==
    SpecCSRF /\ WF_vars(TickCSRF) /\ WF_vars(CSRFFinish)

InitOnlySQL == Fresh /\ ParkedShutdown

SpecSQL == InitOnlySQL /\ [][NextSQL]_vars

InitOnlyRouter == Fresh /\ ParkedShutdown

SpecRouter == InitOnlyRouter /\ [][NextRouter]_vars

SpecMiddleware == InitOnlyRouter /\ [][NextMiddleware]_vars

InitOnlyShutdown == Fresh /\ InitShutdown

SpecShutdown == InitOnlyShutdown /\ [][NextShutdown]_vars

\* main is one goroutine: once the signal has come, each of its steps is
\* taken in turn.  The signal itself may never come.
SpecShutdownLive ==
    /\ SpecShutdown
    /\ WF_vars(HTTPShutdown)
    /\ WF_vars(StopAllLimiters)
    /\ WF_vars(ScannerStop)
    /\ WF_vars(FileCacheStop)
    /\ WF_vars(RedisClose)
    /\ WF_vars(DBClose)

\* One RateLimit middleware, from its construction on.
SpecRateLimit == Init /\ [][NextRateLimit]_vars

SpecGroups == InitOnlyRouter /\ [][NextGroups]_vars

\* A router on which paths with "{}" are registered among the others.
SpecEmptyName == InitOnlyRouter /\ [][NextEmptyName]_vars

InitOnlyScanner == Fresh /\ ParkedShutdown

SpecScanner == InitOnlyScanner /\ [][NextScanner]_vars

\* One goroutine building queries and reading with them.
SpecQuery == InitOnlyScanner /\ [][NextQuery]_vars

\* One goroutine building queries with WHERE clauses and running each of the
\* five terminal operations on them.
SpecTerminal == InitOnlyScanner /\ [][NextTerminal]_vars

\* One limiter, its cleanup goroutine and two goroutines serving requests.
InitLimiterThreads == Init /\ winKey = "10.0.0.1:5000"

SpecLimiterThreads == InitLimiterThreads /\ [][NextConc]_vars

\* The file cache and its clients.
SpecFileCache == InitOnlyScanner /\ [][NextFileCache]_vars

\* With its scheduling: a goroutine inside a call takes its next step when
\* it can.  Nothing makes a client call, and the clock may stand still.
\* sync.RWMutex lets no waiter starve, hence the strong fairness.
FileCacheThreadStep(th) ==
    /\ FileCacheRLock \/ FileCacheLock \/ FileCacheStep
    /\ fcThreads'[th] # fcThreads[th]

SpecFileCacheLive ==
    /\ SpecFileCache
    /\ \A th \in CacheThreads : SF_vars(FileCacheThreadStep(th))

\* The scanner with its scheduling, in the same way: a goroutine inside
\* ScanStruct takes its next step when it can, and no waiter for
\* scannerCacheMu starves.  Nothing makes a scan start.
ScanThreadStep(th) ==
    /\ RLockStep \/ FastPathStep \/ StoreStep \/ LockStep \/ SlowPathStep
    /\ scanThreads'[th] # scanThreads[th]

SpecScannerLive ==
    /\ SpecScanner
    /\ \A th \in ScanThreads : SF_vars(ScanThreadStep(th))

\* C1: for every key and every interval, the admissions of that key inside
\* the interval are at most capacity + floor(elapsed * capacity / window),
\* whatever admissions, rejections and reaper runs are interleaved.
RateLimitConservation ==
    winCount <= maxRequests + ((now - winStart) * maxRequests) \div windowInSeconds

\* An interval that saw a reaper evict the key's bucket and more admissions
\* than the capacity, up to the bound.
RateLimitConservationWitness ==
    /\ now - winStart > 2 * windowInSeconds
    /\ winCount > maxRequests
    /\ winCount = maxRequests + ((now - winStart) * maxRequests) \div windowInSeconds

\* C2: a POST, PUT, PATCH or DELETE reaches the downstream handler only if
\* the submitted token equals the token stored for the session and that
\* token's expiry has not passed; a missing token, a mismatch or an expired
\* stored token is answered 403 and the handler is not invoked.
UnsafeMethods == {"POST", "PUT", "PATCH", "DELETE"}

TokenValidAtValidation ==
    /\ lastResp.submitted # NoToken
    /\ lastResp.stored.exists
    /\ lastResp.stored.Value = lastResp.submitted
    /\ ~(lastResp.at > lastResp.stored.ExpiresAt)

CSRFGate ==
    (lastResp.done /\ lastResp.method \in UnsafeMethods) =>
        /\ lastResp.handler <=> TokenValidAtValidation
        /\ (lastResp.status = 403) <=> ~TokenValidAtValidation
        /\ lastResp.status \in {200, 403}

\* A POST that submitted the session's stored token after that token had
\* expired while the request was inside the middleware: 403.
CSRFGateWitness ==
    /\ lastResp.done
    /\ lastResp.method = "POST"
    /\ lastResp.stored.exists
    /\ lastResp.stored.Value = lastResp.submitted
    /\ lastResp.at > lastResp.stored.ExpiresAt
    /\ lastResp.status = 403
    /\ ~lastResp.handler

(***************************************************************************)
(* Helpers of the SQL properties.                                          *)
(***************************************************************************)
CompiledKinds == {"ToSQL", "ExecInsert", "ExecUpdate", "ExecDelete"}

Compiled == lastCall.kind \in CompiledKinds /\ ~lastCall.result.panic

CountChar(s, c) == Cardinality({i \in 1 .. Len(s) : s[i] = c})

IsInfix(p, s) ==
    \E i \in 0 .. (Len(s) - Len(p)) : SubSeq(s, i + 1, i + Len(p)) = p

\* The compilation the last call made, of a builder q and a map data.
CompileAs(kind, q, data) ==
    IF kind = "ToSQL" THEN CompileSelect(q)
    ELSE IF kind = "ExecInsert" THEN CompileInsert(q.table, data)
    ELSE IF kind = "ExecUpdate" THEN CompileUpdate(q.table, data, q.wheres)
    ELSE CompileDelete(q.table, q.wheres)

\* The values the caller supplied to the last call, in the order of use.
DataValues == [i \in DOMAIN lastCall.data |-> lastCall.data[i].v]
WhereValues == [i \in DOMAIN qb.wheres |-> qb.wheres[i].Value]
SuppliedValues ==
    IF lastCall.kind = "ExecInsert" THEN DataValues
    ELSE IF lastCall.kind = "ExecUpdate" THEN DataValues \o WhereValues
    ELSE WhereValues

\* The same call with every value replaced by the empty text.
ErasedBuilder ==
    [qb EXCEPT !.wheres = [i \in DOMAIN qb.wheres |->
                             [qb.wheres[i] EXCEPT !.Value = Erased]]]
ErasedData == [i \in DOMAIN lastCall.data |-> [lastCall.data[i] EXCEPT !.v = Erased]]

\* C3: in every compiled SELECT, INSERT, UPDATE and DELETE the number of `?`
\* in the SQL equals the number of arguments, the arguments are exactly the
\* caller's values, and the SQL text does not depend on the values.
PlaceholdersMatchArgs ==
    Compiled =>
        /\ CountChar(lastCall.result.sql, "?") = Len(lastCall.result.args)
        /\ lastCall.result.args = SuppliedValues
        /\ lastCall.result.sql =
              CompileAs(lastCall.kind, ErasedBuilder, ErasedData).sql

\* An UPDATE of two columns under two WHERE clauses, one value being "?".
PlaceholdersMatchArgsWitness ==
    /\ Compiled
    /\ lastCall.kind = "ExecUpdate"
    /\ Len(lastCall.data) = 2
    /\ Len(qb.wheres) = 2
    /\ Len(lastCall.result.args) = 4
    /\ V2 \in Range(lastCall.result.args)

\* The identifiers the last compilation wrapped.
WhereColumns == {qb.wheres[i].Column : i \in DOMAIN qb.wheres}
DataColumns == {lastCall.data[i].k : i \in DOMAIN lastCall.data}
CompiledNames ==
    IF lastCall.kind = "ToSQL"
        THEN Range(qb.columns) \cup {qb.table} \cup WhereColumns
                \cup {qb.orders[i].Column : i \in DOMAIN qb.orders}
    ELSE IF lastCall.kind = "ExecInsert" THEN {qb.table} \cup DataColumns
    ELSE IF lastCall.kind = "ExecUpdate"
        THEN {qb.table} \cup DataColumns \cup WhereColumns
    ELSE {qb.table} \cup WhereColumns

\* name with a backtick before and after it and around every dot.
Quoted(name) ==
    Backtick(Concat([i \in DOMAIN name |->
                        IF name[i] = "." THEN <<BackQuote, ".", BackQuote>> ELSE <<name[i]>>]))

\* C4: Wrap panics for every identifier other than "*" that fails
\* ^[A-Za-z0-9_.]+$ and returns "*" unchanged; an identifier it accepts is
\* returned with backticks around each dot-separated part; so a compilation
\* that has a failing name panics, and every name of a compiled statement
\* matches the pattern (or is "*") and stands in the SQL in that quoted form.
WrapValidates ==
    /\ lastCall.kind = "Wrap" =>
          /\ lastCall.value = Star =>
                ~lastCall.result.panic /\ lastCall.result.out = Star
          /\ (lastCall.value # Star /\ ~MatchIdentifier(lastCall.value)) =>
                lastCall.result.panic
          /\ (lastCall.value # Star /\ ~lastCall.result.panic) =>
                lastCall.result.out = Quoted(lastCall.value)
    /\ lastCall.kind \in CompiledKinds =>
          /\ (\E n \in CompiledNames : n # Star /\ ~MatchIdentifier(n)) =>
                lastCall.result.panic
          /\ ~lastCall.result.panic =>
                \A n \in CompiledNames :
                    \/ n = Star /\ IsInfix(Star, lastCall.result.sql)
                    \/ /\ MatchIdentifier(n)
                       /\ IsInfix(Quoted(n), lastCall.result.sql)

\* Wrap called with a dotted identifier one part of which has a character
\* outside the pattern: it panicked.
WrapValidatesWitness ==
    /\ lastCall.kind = "Wrap"
    /\ Contains(lastCall.value, ".")
    /\ ~MatchIdentifier(lastCall.value)
    /\ lastCall.result.panic

\* The builder of the last call with every operator replaced by the allowed
\* keyword it was compared as.
CanonicalOperators ==
    [qb EXCEPT !.wheres = [i \in DOMAIN qb.wheres |->
        [qb.wheres[i] EXCEPT !.Operator = ToUpper(TrimSpace(@))]]]

\* C5: every operator token in compiled SQL is an element of the allowed set:
\* the text emitted for a WHERE clause is the upper-cased allowed keyword
\* that the trimmed operator was compared as.
OperatorEmittedIsAllowed ==
    Compiled =>
        /\ \A i \in DOMAIN qb.wheres : EmittedOperator(qb.wheres[i]) \in allowedOperators
        /\ lastCall.result.sql =
              CompileAs(lastCall.kind, CanonicalOperators, lastCall.data).sql

\* C6: after OrderBy(col, dir) the stored direction is OrderDesc if dir
\* trimmed and upper-cased is DESC and OrderAsc otherwise, every stored
\* direction is one of the two, and a SELECT compiled from the builder has
\* the column followed by exactly that keyword.
CanonicalDirection(direction) ==
    IF ToUpper(TrimSpace(direction)) = <<"D", "E", "S", "C">>
        THEN <<"D", "E", "S", "C">>
        ELSE <<"A", "S", "C">>

OrderDirectionSafe ==
    /\ \A i \in DOMAIN qb.orders :
          qb.orders[i].Direction \in {<<"A", "S", "C">>, <<"D", "E", "S", "C">>}
    /\ lastCall.kind = "OrderBy" =>
          /\ qb.orders[Len(qb.orders)] =
                [Column |-> lastCall.column,
                 Direction |-> CanonicalDirection(lastCall.direction)]
          /\ ~CompileSelect(qb).panic =>
                \E pre \in 0 .. Len(CompileSelect(qb).sql) :
                    SubSeq(CompileSelect(qb).sql, pre + 1, Len(CompileSelect(qb).sql))
                      = <<" ", "O", "R", "D", "E", "R", " ", "B", "Y", " ">>
                          \o Join([i \in DOMAIN qb.orders |->
                                     Quoted(qb.orders[i].Column) \o Sp
                                        \o qb.orders[i].Direction], <<",", " ">>)
                          \o (IF qb.limit > 0
                                THEN <<" ", "L", "I", "M", "I", "T", " ">> \o Itoa(qb.limit)
                                ELSE <<>>)
                          \o (IF qb.offset > 0
                                THEN <<" ", "O", "F", "F", "S", "E", "T", " ">>
                                        \o Itoa(qb.offset)
                                ELSE <<>>)

\* OrderBy called with a direction that carries more than a keyword, on a
\* builder whose SELECT compiles: ASC was stored.
OrderDirectionSafeWitness ==
    /\ lastCall.kind = "OrderBy"
    /\ Contains(lastCall.direction, ";")
    /\ qb.orders[Len(qb.orders)].Direction = <<"A", "S", "C">>
    /\ ~CompileSelect(qb).panic

(***************************************************************************)
(* Helpers of the routing properties.                                      *)
(***************************************************************************)
RequestParts == splitPath(lastDispatch.path)

\* The registered routes of the request's method.
MethodKeys == {k \in RouteKeys : k.method = lastDispatch.method}

\* The node positions below `cur` that the registered routes give rise to.
HasStaticRoute(cur, i, segment) ==
    \E k \in MethodKeys :
        /\ Len(k.parts) >= i
        /\ EdgePath(SubSeq(k.parts, 1, i - 1)) = cur
        /\ ~isParam(k.parts[i])
        /\ k.parts[i] = segment

HasParamRoute(cur, i) ==
    \E k \in MethodKeys :
        /\ Len(k.parts) >= i
        /\ EdgePath(SubSeq(k.parts, 1, i - 1)) = cur
        /\ isParam(k.parts[i])

\* The node the set of registered routes determines for a request: at every
\* step the static continuation if a route has one, else the parameter one.
RECURSIVE ExpectedNode(_, _, _)
ExpectedNode(parts, i, cur) ==
    IF i > Len(parts) THEN cur
    ELSE IF HasStaticRoute(cur, i, parts[i])
        THEN ExpectedNode(parts, i + 1, Append(cur, StaticEdge(parts[i])))
    ELSE IF HasParamRoute(cur, i)
        THEN ExpectedNode(parts, i + 1, Append(cur, ParamEdge))
    ELSE NoNode

\* C7: the node a dispatch ends at is a function of the set of registered
\* routes and the request (method, path), and at every node on the way a
\* static child equal to the request segment was taken in preference to the
\* parameter child.
RoutingDeterministic ==
    lastDispatch.done =>
        /\ lastDispatch.node =
              IF MethodKeys = {} THEN NoNode ELSE ExpectedNode(RequestParts, 1, <<>>)
        /\ lastDispatch.node # NoNode =>
              \A i \in 1 .. Len(lastDispatch.node) :
                  Append(SubSeq(lastDispatch.node, 1, i - 1), StaticEdge(RequestParts[i]))
                        \in DOMAIN trees[lastDispatch.method]
                    => lastDispatch.node[i] = StaticEdge(RequestParts[i])

\* GET /users/new dispatched with /users/{id} and /users/new both registered:
\* it ended at the static node.
RoutingDeterministicWitness ==
    /\ lastDispatch.done
    /\ lastDispatch.status = 200
    /\ lastDispatch.node = <<StaticEdge(SegUsers), StaticEdge(SegNew)>>
    /\ <<StaticEdge(SegUsers), ParamEdge>> \in DOMAIN trees[lastDispatch.method]
    /\ trees[lastDispatch.method][<<StaticEdge(SegUsers), ParamEdge>>].handler # NoHandler

\* The request's segments match the route's: equal where the route is static.
Matches(parts, routeParts) ==
    /\ Len(parts) = Len(routeParts)
    /\ \A i \in DOMAIN routeParts : isParam(routeParts[i]) \/ routeParts[i] = parts[i]

\* The text between the braces of a parameter segment.
Unbraced(segment) == [i \in 1 .. (Len(segment) - 2) |-> segment[i + 1]]

\* The request segments at the route's parameter positions, by name.
ParamsOf(parts, routeParts) ==
    [n \in {Unbraced(routeParts[i]) : i \in {j \in DOMAIN routeParts : isParam(routeParts[j])}}
        |-> parts[CHOOSE i \in DOMAIN routeParts :
                    isParam(routeParts[i]) /\ Unbraced(routeParts[i]) = n]]

\* Another route of the method has, at the same node, a parameter segment
\* with another name.
NameConflict(k) ==
    \E k2 \in MethodKeys, i \in DOMAIN k.parts :
        /\ Len(k2.parts) >= i
        /\ EdgePath(SubSeq(k2.parts, 1, i)) = EdgePath(SubSeq(k.parts, 1, i))
        /\ k2.parts[i] # k.parts[i]

\* Another route of the method has, at a parameter position of the route and
\* the same node, a static segment equal to the request's segment.
Shadowed(parts, k) ==
    \E i \in DOMAIN k.parts :
        /\ isParam(k.parts[i])
        /\ HasStaticRoute(EdgePath(SubSeq(k.parts, 1, i - 1)), i, parts[i])

Reached(r) ==
    /\ lastDispatch.status = 200
    /\ lastDispatch.handler.h = r.handler
    /\ lastDispatch.params = ParamsOf(RequestParts, r.key.parts)

\* C8: a request of the route's method whose segments match a registered
\* route p (without conflicting parameter names) and no other registered
\* route invokes p's handler with each bracketed name of p bound to the
\* request segment at its position, whatever else is registered; it is never
\* answered 404.
RouteAlwaysReached ==
    lastDispatch.done =>
        \A r \in routes :
            (/\ r.key \in MethodKeys
             /\ Matches(RequestParts, r.key.parts)
             /\ ~NameConflict(r.key)
             /\ \A k2 \in MethodKeys \ {r.key} : ~Matches(RequestParts, k2.parts))
                => Reached(r)

\* What the walk does guarantee: the matching request reaches p's handler
\* with the names bound, provided no registered route has, at a parameter
\* position of p and the same node, a static segment equal to the request's
\* segment there.
RouteReachedUnlessShadowed ==
    lastDispatch.done =>
        \A r \in routes :
            (/\ r.key \in MethodKeys
             /\ Matches(RequestParts, r.key.parts)
             /\ ~NameConflict(r.key)
             /\ ~Shadowed(RequestParts, r.key))
                => Reached(r)

\* GET /users/42/profile dispatched with /users/{id}/profile and
\* /users/new/edit registered: the handler ran with id = 42.
RouteReachedWitness ==
    /\ lastDispatch.done
    /\ lastDispatch.status = 200
    /\ RequestParts = <<SegUsers, Seg42, SegProfile>>
    /\ [method |-> "GET", parts |-> <<SegUsers, SegNew, SegEdit>>] \in RouteKeys
    /\ lastDispatch.params = (<<"i", "d">> :> Seg42)

\* What runs for a chain of middleware around a handler.
ExpectedTrace(chain, h) ==
    [i \in 1 .. Len(chain) |-> <<"enter", chain[i]>>]
        \o <<<<"handler", h>>>>
        \o [i \in 1 .. Len(chain) |-> <<"exit", chain[Len(chain) + 1 - i]>>]

\* C9: a dispatched request enters the global middleware in the order of
\* Use, then the group's, then the route's own, then the handler, and
\* returns through them in the reverse order; for [G1, G2], [R1], [P1] that
\* is G1, G2, R1, P1, handler, P1, R1, G2, G1.
MiddlewareOrder ==
    (lastDispatch.done /\ lastDispatch.status = 200) =>
        /\ lastDispatch.trace =
              ExpectedTrace(lastDispatch.handler.global \o lastDispatch.handler.group
                                \o lastDispatch.handler.route,
                            lastDispatch.handler.h)
        /\ (/\ lastDispatch.handler.global = <<"G1", "G2">>
            /\ lastDispatch.handler.group = <<"R1">>
            /\ lastDispatch.handler.route = <<"P1">>)
              => lastDispatch.trace =
                    <<<<"enter", "G1">>, <<"enter", "G2">>, <<"enter", "R1">>,
                      <<"enter", "P1">>, <<"handler", lastDispatch.handler.h>>,
                      <<"exit", "P1">>, <<"exit", "R1">>, <<"exit", "G2">>,
                      <<"exit", "G1">>>>

MiddlewareOrderWitness ==
    /\ lastDispatch.done
    /\ lastDispatch.trace =
          <<<<"enter", "G1">>, <<"enter", "G2">>, <<"enter", "R1">>,
            <<"enter", "P1">>, <<"handler", "h1">>,
            <<"exit", "P1">>, <<"exit", "R1">>, <<"exit", "G2">>, <<"exit", "G1">>>>

\* C10: once main has returned from the teardown, every reaper that was
\* started has left its loop.
ReapersStoppedAfterShutdown ==
    orchestrator = "returned" => \A r \in Reapers : reapers[r] # "running"

\* main has returned, both limiters' reapers and the scanner's were told to
\* stop, and a limiter's reaper has run its loop body to the last.
ReapersStoppedAfterShutdownWitness ==
    /\ orchestrator = "returned"
    /\ Limiters \cup {ScannerReaper} \subseteq stopSignals
    /\ \E r \in Limiters : reapers[r] = "running" /\ reaperRuns[r] = MaxReaperRuns

\* The position of main at step `p` of the teardown.
Position(p) == CHOOSE i \in DOMAIN TeardownSteps : TeardownSteps[i] = p

\* A step that main skips for the configured cache driver.
StepApplies(step) ==
    /\ step = "stopFileCache" => cacheDriver = "file"
    /\ step = "closeRedis" => cacheDriver = "redis"

Passed(step) == Position(orchestrator) > Position(step)

Started(rs) == {r \in rs : reapers[r] # "notStarted"}

\* C11: after the signal the teardown steps run in the order HTTP shutdown,
\* stop of the limiters' reapers, stop of the scanner's reaper, stop of the
\* file cache's reaper, close of Redis, close of the database pool, each
\* after the one before it has finished: at every moment the steps done are
\* exactly the steps that precede main's position, in that order, and a
\* reaper has been told to stop exactly when its step is done.
TeardownInOrder ==
    /\ [i \in DOMAIN teardownLog |-> teardownLog[i].step] =
          SelectSeq(SubSeq(TeardownSteps, 2, Position(orchestrator) - 1), StepApplies)
    /\ stopSignals \cap Limiters =
          IF Passed("stopLimiters") THEN Started(Limiters) ELSE {}
    /\ ScannerReaper \in stopSignals <=> Passed("stopScanner")
    /\ FileCacheGC \in stopSignals <=> (Passed("stopFileCache") /\ cacheDriver = "file")

\* main has returned from a teardown with Redis configured, in which the
\* HTTP shutdown ran into its deadline and two limiters had to be stopped.
TeardownInOrderWitness ==
    /\ orchestrator = "returned"
    /\ cacheDriver = "redis"
    /\ Len(teardownLog) = 5
    /\ teardownLog[1].failed
    /\ Limiters \subseteq stopSignals

AllBucketsIdleOver == \A k \in DOMAIN buckets :
                          now - buckets[k].lastRefillTime > 2 * windowInSeconds
AllBucketsIdleAtLeast == \A k \in DOMAIN buckets :
                             now - buckets[k].lastRefillTime >= 2 * windowInSeconds

Age(typ) == now - scannerCache[typ].lastAccess

\* C13 (as amended): a run of the scanner-cache reaper evicts every entry
\* that has been idle for more than the threshold, so it leaves the cache
\* empty when all entries are that idle, and it keeps every entry that has
\* been idle for the threshold or less.
ScannerReaperEvictsIdle ==
    [][ScannerCleanupRun =>
          /\ (\A typ \in DOMAIN scannerCache : Age(typ) > ScannerMaxAge)
                => scannerCache' = <<>>
          /\ \A typ \in DOMAIN scannerCache :
                Age(typ) <= ScannerMaxAge => typ \in DOMAIN scannerCache']_vars

\* C13: a run of the scanner-cache reaper at a moment when every entry has
\* been idle for at least the threshold leaves the cache empty, and it never
\* evicts an entry accessed more recently than the threshold.
ScannerReaperEvictsIdleAtLeast ==
    [][ScannerCleanupRun =>
          /\ (\A typ \in DOMAIN scannerCache : Age(typ) >= ScannerMaxAge)
                => scannerCache' = <<>>
          /\ \A typ \in DOMAIN scannerCache :
                Age(typ) < ScannerMaxAge => typ \in DOMAIN scannerCache']_vars

\* A scan has gone through, so its type was cached, and the cache is empty
\* again.
ScannerReaperEvictsIdleWitness ==
    /\ lastScan.done
    /\ lastScan.err = ""
    /\ scannerCache = <<>>


\* The responses to the requests charged to one key, oldest first.
KeyLog(key) == SelectSeq(burst, LAMBDA e : e.key = key)

\* The first i responses of a log fall into a span shorter than
\* 1 / refillRate seconds.
WithinOneRefill(log, i) == (log[i].at - log[1].at) * maxRequests < windowInSeconds

\* What C14 expects of the i-th response on a key that had no bucket.
BurstResponseExpected(log, i) ==
    /\ i <= maxRequests =>
          /\ log[i].allowed
          /\ log[i].remaining = maxRequests - i
          /\ log[i].status = 200
          /\ log[i].handler
    /\ i = maxRequests + 1 =>
          /\ ~log[i].allowed
          /\ log[i].remaining = 0
          /\ log[i].status = 429
          /\ ~log[i].handler
          /\ log[i].hasRetryAfter

\* C14: of N + 1 attempts on a key without a bucket, made within a span
\* shorter than 1 / refillRate seconds, the i-th (i = 1 .. N) is admitted
\* with remaining N - i and reaches the handler, and attempt N + 1 is
\* answered 429 with remaining 0 and a retry-after that is not zero.
BurstAdmitsThenRejects ==
    \A e \in Range(burst) :
        LET log == KeyLog(e.key)
        IN  /\ log[1].fresh
            /\ \A i \in 1 .. Len(log) :
                  (i <= maxRequests + 1 /\ WithinOneRefill(log, i)) =>
                      /\ BurstResponseExpected(log, i)
                      /\ (i = maxRequests + 1 => log[i].retryAfter # 0)

\* The same without the retry-after: this much holds of the code.
BurstAdmitsThenRejectsButRetryAfter ==
    \A e \in Range(burst) :
        LET log == KeyLog(e.key)
        IN  /\ log[1].fresh
            /\ \A i \in 1 .. Len(log) :
                  (i <= maxRequests + 1 /\ WithinOneRefill(log, i)) =>
                      BurstResponseExpected(log, i)

\* N + 1 attempts on one key, not all at the same moment, the last one
\* rejected.
BurstAdmitsThenRejectsWitness ==
    \E e \in Range(burst) :
        LET log == KeyLog(e.key)
        IN  /\ Len(log) = maxRequests + 1
            /\ WithinOneRefill(log, Len(log))
            /\ log[Len(log)].at > log[1].at
            /\ log[Len(log)].status = 429


\* The record types that embed a record.
Embeds(type) ==
    \E i \in 1 .. NumField(type) :
        StructTypes[type][i].Anonymous /\ StructTypes[type][i].Kind = "struct"

\* The field map C15 expects for User, and what a scan of a row with exactly
\* its columns writes.
UserFieldMap ==
    (ColId :> NameBaseModel \o <<".">> \o NameID)
        @@ (ColCreatedAt :> NameBaseModel \o <<".">> \o NameCreatedAt)
        @@ (ColName :> NameName)
        @@ (ColEmail :> NameEmail)

UserWritten ==
    (<<NameBaseModel, NameID>> :> ColId)
        @@ (<<NameBaseModel, NameCreatedAt>> :> ColCreatedAt)
        @@ (<<NameName>> :> ColName)
        @@ (<<NameEmail>> :> ColEmail)

\* A thread waits for the read lock while it holds the write lock itself.
SelfBlocked(th) == At(th, "rlock") /\ scannerCacheMu.writer = th

\* C15: ScanStruct into a record that embeds another, on a row of exactly
\* the record's columns, derives the field map that sends the embedded
\* record's columns to "<EmbeddedFieldName>.<Field>" and the own tagged
\* fields to their names, writes every column into its field, leaves no
\* column unread and returns without error: the call is never in a position
\* from which it cannot return, and what it returns is that.
ScanEmbeddedRecord ==
    /\ \A th \in ScanThreads :
          (scanThreads[th].busy /\ Embeds(scanThreads[th].dest)) => ~SelfBlocked(th)
    /\ (lastScan.done /\ lastScan.dest = "User") =>
          /\ lastScan.err = ""
          /\ lastScan.fieldMap = UserFieldMap
          /\ lastScan.written = UserWritten
          /\ lastScan.discarded = {}

\* The same for a record that embeds nothing: these scans do return.
ScanPlainRecord ==
    (lastScan.done /\ lastScan.dest = "Post") =>
        /\ lastScan.err = ""
        /\ lastScan.fieldMap = (ColId :> NameID) @@ (ColTitle :> NameTitle)
        /\ lastScan.written = (<<NameID>> :> ColId) @@ (<<NameTitle>> :> ColTitle)
        /\ lastScan.discarded = Range(lastScan.cols) \ {ColId, ColTitle}

\* What the derivation would yield if the recursive call returned.
RECURSIVE FieldMapOf(_)
FieldMapOf(type) ==
    LET RECURSIVE Loop(_, _)
        Loop(i, mapping) ==
            LET d == DeriveFrom(type, i, mapping)
            IN  IF d.i > NumField(type) THEN d.mapping
                ELSE Loop(d.i + 1,
                          Splice(d.mapping, StructTypes[type][d.i],
                                 FieldMapOf(StructTypes[type][d.i].Type)))
    IN  Loop(1, <<>>)

\* A scan into User is stuck behind its own write lock while the other
\* thread has scanned a Post.
ScanEmbeddedRecordWitness ==
    /\ \E th \in ScanThreads : scanThreads[th].busy /\ scanThreads[th].dest = "User"
                                  /\ SelfBlocked(th)
    /\ lastScan.done
    /\ lastScan.dest = "Post"
    /\ FieldMapOf("User") = UserFieldMap
    /\ ScanWith("User", <<ColId, ColName, ColEmail, ColCreatedAt>>,
                FieldMapOf("User")).written = UserWritten

\* C16: a GET, HEAD or OPTIONS request reaches the downstream handler
\* whatever token it carries, and the csrf_token cookie of its response is
\* the token the store holds for its session when the cookie is set, the
\* session id and the token having been created if there were none.
SafeMethodsPass ==
    /\ [](lastResp.done /\ lastResp.method \in SafeMethods =>
            /\ lastResp.handler
            /\ lastResp.status = 200
            /\ lastResp.csrfCookie[1] = "random")
    /\ [][\A th \in Threads :
            (inflight[th] = Idle /\ inflight'[th] # Idle) =>
                /\ inflight'[th].sessionID \in DOMAIN csrfTokens'
                /\ csrfTokens'[inflight'[th].sessionID].Value = inflight'[th].csrfCookie
                /\ now < csrfTokens'[inflight'[th].sessionID].ExpiresAt
                /\ inflight'[th].newSession =>
                      /\ inflight'[th].sessionID = SessionID(nextSession)
                      /\ inflight'[th].sessionID \notin DOMAIN csrfTokens]_vars

\* A GET carrying the session id the client chose got through, and its
\* cookie is the second token the store generated.
SafeMethodsPassWitness ==
    /\ lastResp.done
    /\ lastResp.method = "GET"
    /\ lastResp.handler
    /\ ~lastResp.newSession
    /\ lastResp.csrfCookie = Token(2)
    /\ lastResp.sessionID = ClientSession

\* C17: token validation applies to POST, PUT, PATCH and DELETE and to no
\* other method: a request with any other method is never answered 403 and
\* reaches the downstream handler.
OnlyUnsafeMethodsValidated ==
    (lastResp.done /\ lastResp.method \notin UnsafeMethods) =>
        /\ lastResp.status # 403
        /\ lastResp.handler

\* A TRACE request was answered.
OnlyUnsafeMethodsValidatedWitness ==
    /\ lastResp.done
    /\ lastResp.method = "TRACE"

\* The orders in which the routes of a set can be registered.
Orders(S) ==
    {o \in [1 .. Cardinality(S) -> S] :
        \A i, j \in 1 .. Cardinality(S) : o[i] = o[j] => i = j}

\* The tries of a new router after registering the routes of o, in order.
RECURSIVE BuildFrom(_, _, _)
BuildFrom(trs, o, i) ==
    IF i > Len(o) THEN trs
    ELSE BuildFrom(HandleWithGroupOn(trs, <<>>, o[i].key.method,
                                     Slashed(o[i].key.parts), o[i].handler, <<>>),
                   o, i + 1)

Build(o) == BuildFrom(<<>>, o, 1)

\* What a dispatch selected: the status, the handler and the parameters.
Outcome(d) ==
    [status |-> d.status,
     h |-> IF d.handler = NoHandler THEN "none" ELSE d.handler.h,
     params |-> d.params]

\* C18: for the set of registered routes, the handler selected and the
\* parameter map produced for a request are the same for every order in
\* which those routes are registered.
RegistrationOrderIndependent ==
    lastDispatch.done =>
        \A o1, o2 \in Orders(routes) :
            Outcome(ServeHTTPOn(Build(o1), lastDispatch.method, lastDispatch.path))
              = Outcome(ServeHTTPOn(Build(o2), lastDispatch.method, lastDispatch.path))

\* Two routes that end at different nodes are registered, and a request
\* was dispatched to one of them with a parameter bound.
RegistrationOrderIndependentWitness ==
    /\ lastDispatch.done
    /\ lastDispatch.status = 200
    /\ lastDispatch.params # <<>>
    /\ RouteKey("GET", Slashed(<<SegUsers, SegId, SegProfile>>)) \in RouteKeys
    /\ RouteKey("GET", Slashed(<<SegUsers, SegName>>)) \in RouteKeys
    /\ lastDispatch.path = Slashed(<<SegUsers, Seg42>>)

\* s is the beginning of t.
IsPrefix(s, t) == Len(s) <= Len(t) /\ s = SubSeq(t, 1, Len(s))

\* The handlers installed in the tries.
InstalledHandlers ==
    {trees[m][np].handler : <<m, np>> \in
        {<<m, np>> \in UNION {{m} \X DOMAIN trees[m] : m \in DOMAIN trees} :
            trees[m][np].handler # NoHandler}}

\* The list of group g: what it copied from its parent when it was made,
\* then what its own use calls appended.
GroupListIsOwn(g) ==
    \A i \in DOMAIN groups[g].middlewares :
        IF i <= groups[g].inherited
            THEN /\ groups[g].parent # RouterItself
                 /\ i <= Len(groups[groups[g].parent].middlewares)
                 /\ groups[g].middlewares[i] = groups[groups[g].parent].middlewares[i]
            ELSE \E n \in DOMAIN GroupMiddlewareNames[g] :
                    groups[g].middlewares[i] = GroupMiddlewareNames[g][n]

\* The chain of an installed handler is made of the router's list and of
\* the list of the group it was registered through, as they were then.
ChainIsOfItsGroup(x) ==
    /\ IsPrefix(x.global, middlewares)
    /\ \A g \in DOMAIN groups :
          x.h = GroupHandlers[g] => IsPrefix(x.group, groups[g].middlewares)
    /\ (\A g \in DOMAIN groups : x.h # GroupHandlers[g]) => x.group \in GroupChains

\* A step that adds middleware to group g changes nothing else.
UseTouchesOnlyItsGroup ==
    \A g \in DOMAIN groups :
        (g \in DOMAIN groups' /\ groups'[g].middlewares # groups[g].middlewares) =>
            /\ trees' = trees
            /\ middlewares' = middlewares
            /\ groups'[g].middlewares = Append(groups[g].middlewares,
                                               groups'[g].middlewares[Len(groups'[g].middlewares)])
            /\ \A k \in DOMAIN groups : k # g => groups'[k] = groups[k]

\* C19: adding middleware to a group with group.use changes only that
\* group's list: the chains of the routes already registered, the router's
\* list and the lists of the parent and sibling groups stay as they are, a
\* derived group holding its own copy of the parent's list.
GroupUseFrame ==
    /\ [](/\ \A g \in DOMAIN groups : GroupListIsOwn(g)
          /\ \A i \in DOMAIN middlewares : middlewares[i] = GlobalNames[i]
          /\ \A x \in InstalledHandlers : ChainIsOfItsGroup(x))
    /\ [][UseTouchesOnlyItsGroup]_vars

\* A route registered through group 1 before the group's use keeps its
\* empty group chain, group 2 was derived from group 1 before that use and
\* has only its own middleware, and a route registered through group 2
\* carries it.
GroupUseFrameWitness ==
    /\ Len(groups) = 2
    /\ groups[1].middlewares = <<"A1">>
    /\ groups[2].parent = 1
    /\ groups[2].inherited = 0
    /\ groups[2].middlewares = <<"B1">>
    /\ \E x \in InstalledHandlers : x.h = GroupHandlers[1] /\ x.group = <<>>
    /\ \E x \in InstalledHandlers : x.h = GroupHandlers[2] /\ x.group = <<"B1">>
    /\ middlewares # <<>>

\* C20: the middleware charges a request to the bucket of its authenticated
\* subject when it has one and to the bucket of its client IP otherwise:
\* two requests of the same subject, and two unauthenticated requests from
\* the same IP whatever their source port, are charged to the same bucket.
ChargedToSubjectOrIP ==
    \A i, j \in DOMAIN burst :
        /\ (/\ burst[i].client.subject # NoSubject
            /\ burst[i].client.subject = burst[j].client.subject)
              => burst[i].key = burst[j].key
        /\ (/\ burst[i].client.subject = NoSubject
            /\ burst[j].client.subject = NoSubject
            /\ burst[i].client.ip = burst[j].client.ip)
              => burst[i].key = burst[j].key

\* Two unauthenticated requests from one IP and two source ports were
\* served, and two requests of one subject from two IPs.
ChargedToSubjectOrIPWitness ==
    /\ \E i, j \in DOMAIN burst :
          /\ burst[i].client.subject = NoSubject
          /\ burst[j].client.subject = NoSubject
          /\ burst[i].client.ip = burst[j].client.ip
          /\ burst[i].client.port # burst[j].client.port
    /\ \E i, j \in DOMAIN burst :
          /\ burst[i].client.subject = "u1"
          /\ burst[j].client.subject = "u1"
          /\ burst[i].client.ip # burst[j].client.ip

\* The session ids an entry of the token map can have in the model.
StoreSessions == {ClientSession} \cup {SessionID(n) : n \in 1 .. MaxSessions}

\* The entry of a session is in the map and its expiry has passed.
ExpiredEntry(sessionID) ==
    /\ sessionID \in DOMAIN csrfTokens
    /\ ~(now < csrfTokens[sessionID].ExpiresAt)

\* C21: every entry of the CSRF token map is eventually removed once it has
\* expired, whether or not its session sends another request.
ExpiredTokensRemoved ==
    \A sessionID \in StoreSessions :
        ExpiredEntry(sessionID) ~> (sessionID \notin DOMAIN csrfTokens)

\* An entry outlived its expiry by a tick while no request is being served.
ExpiredTokensRemovedWitness ==
    /\ \E sessionID \in StoreSessions :
          /\ ExpiredEntry(sessionID)
          /\ now > csrfTokens[sessionID].ExpiresAt
    /\ \A th \in Threads : inflight[th] = Idle

\* No step of the program takes a session out of the token map: GetToken
\* deletes an expired entry only to store a new one for the same session
\* before it releases the lock.
TokenEntryNeverRemoved ==
    [][\A sessionID \in DOMAIN csrfTokens : sessionID \in DOMAIN csrfTokens']_vars

LimitOneText == <<" ", "L", "I", "M", "I", "T", " ", "1">>

\* The statement has one LIMIT clause, and it is LIMIT 1.
HasLimitOne(sql) ==
    LET at == {i \in 1 .. Len(sql) - 5 :
                  SubSeq(sql, i, i + 5) = SubSeq(LimitOneText, 1, 6)}
    IN  /\ Cardinality(at) = 1
        /\ \A i \in at :
              /\ i + 7 <= Len(sql)
              /\ SubSeq(sql, i, i + 7) = LimitOneText
              /\ (i + 7 < Len(sql) => sql[i + 8] = " ")

\* A First that ended, on a query whose identifiers are valid, into a
\* pointer to a record.
FirstEnded ==
    /\ lastCall.kind = "First"
    /\ lastCall.done
    /\ ~lastCall.result.panic
    /\ lastCall.dest # NotAStruct

\* What First owes its caller when it has ended.
FirstDelivers ==
    /\ HasLimitOne(lastCall.result.sql)
    /\ lastCall.outcome = "not-found" <=> (~lastCall.queryErr /\ lastCall.rows = <<>>)
    /\ (~lastCall.queryErr /\ lastCall.rows # <<>>) =>
          /\ lastCall.outcome = "scanned"
          /\ lastCall.cursor = 1
          /\ lastCall.scan = ScanWith(lastCall.dest, lastCall.cols,
                                      FieldMapOf(lastCall.dest))
          /\ lastCall.scan.written # <<>>

\* C22: first(dest) always compiles its SELECT with LIMIT 1 whatever limit
\* was set before, returns the not-found error exactly when the executor's
\* row stream is empty, and otherwise scans the first row into dest.
FirstLimitsAndScans == FirstEnded => FirstDelivers

\* The same, for the calls whose row stream closes without an error.
FirstLimitsAndScansIfCloseSucceeds ==
    (FirstEnded /\ ~lastCall.closeErr) => FirstDelivers

\* After Limit(10), a First on an empty row stream whose close failed, and
\* a cached record type from an earlier First that scanned a row.
FirstLimitsAndScansWitness ==
    /\ FirstEnded
    /\ lastCall.limitBefore = 10
    /\ lastCall.rows = <<>>
    /\ ~lastCall.queryErr
    /\ lastCall.closeErr
    /\ "Post" \in DOMAIN scannerCache

\* A First after Limit(10) scanned the first of two rows into a Post.
FirstScannedWitness ==
    /\ FirstEnded
    /\ lastCall.limitBefore = 10
    /\ lastCall.rows = <<"row1", "row2">>
    /\ lastCall.dest = "Post"
    /\ lastCall.outcome = "scanned"

\* The column list of an INSERT statement, read back from its text: what
\* stands between the first "(" and the first ")", cut at the commas, with
\* the blanks and the backticks taken off.
ParsedColumns(sql) ==
    LET open == CHOOSE i \in 1 .. Len(sql) :
                    sql[i] = "(" /\ \A j \in 1 .. (i - 1) : sql[j] # "("
        close == CHOOSE i \in 1 .. Len(sql) :
                    sql[i] = ")" /\ \A j \in 1 .. (i - 1) : sql[j] # ")"
        inner == SubSeq(sql, open + 1, close - 1)
        pieces == Split(inner, ",")
    IN  IF inner = <<>> THEN <<>>
        ELSE [i \in DOMAIN pieces |->
                SelectSeq(TrimSpace(pieces[i]), LAMBDA c : c # BackQuote)]

\* The statement and the arguments pair every key of the map M with M's
\* value for it, once.
InsertPairs(M, compiled) ==
    LET columns == ParsedColumns(compiled.sql)
    IN  /\ ~compiled.panic
        /\ Len(columns) = Cardinality(M)
        /\ Len(compiled.args) = Cardinality(M)
        /\ \A e \in M :
              Cardinality({i \in DOMAIN columns : columns[i] = e.k}) = 1
        /\ \A i \in DOMAIN columns :
              [k |-> columns[i], v |-> compiled.args[i]] \in M

ApplicableSteps ==
    SelectSeq(SubSeq(TeardownSteps, 2, Len(TeardownSteps) - 1), StepApplies)

\* A step of the teardown has just been logged as failed.
StepFailed ==
    /\ Len(teardownLog') = Len(teardownLog) + 1
    /\ teardownLog'[Len(teardownLog')].failed

\* C24: when a teardown step fails (the HTTP shutdown runs into its
\* deadline, or the close of Redis or of the database pool returns an
\* error) the failure is logged, main goes on to the next step, every step
\* has been executed when main returns, and main does return.
TeardownSurvivesFailures ==
    /\ [][StepFailed =>
            /\ teardownLog'[Len(teardownLog')].step = orchestrator
            /\ Position(orchestrator') = Position(orchestrator) + 1]_vars
    /\ [](orchestrator = "returned" =>
            [i \in DOMAIN teardownLog |-> teardownLog[i].step] = ApplicableSteps)
    /\ (orchestrator # "serving") ~> (orchestrator = "returned")

\* main has returned from a teardown in which the HTTP shutdown, the close
\* of Redis and the close of the database pool all failed.
TeardownSurvivesFailuresWitness ==
    /\ orchestrator = "returned"
    /\ cacheDriver = "redis"
    /\ teardownLog[1].failed
    /\ \E i \in DOMAIN teardownLog :
          teardownLog[i].step = "closeRedis" /\ teardownLog[i].failed
    /\ teardownLog[Len(teardownLog)].step = "closeDB"
    /\ teardownLog[Len(teardownLog)].failed

\* C25: on the file cache, Increment(key, d) and Decrement(key, d) complete,
\* and return the counter the key held plus d or minus d, an absent key
\* counting as 0.
IncrementOngoing(th) ==
    /\ fcThreads[th].busy
    /\ fcThreads[th].op \in {"Increment", "Decrement"}

IncrementReturned ==
    /\ lastCacheCall.done
    /\ lastCacheCall.op \in {"Increment", "Decrement"}

IncrementCounts ==
    /\ \A th \in CacheThreads : IncrementOngoing(th) ~> ~fcThreads[th].busy
    /\ [](IncrementReturned =>
            lastCacheCall.result =
                Num(lastCacheCall.before + lastCacheCall.arg))

\* Increment holds the write lock and is inside its call of Get, at the
\* RLock of the same lock.
IncrementCountsWitness ==
    \E th \in CacheThreads :
        /\ IncrementOngoing(th)
        /\ fcMu.writer = th
        /\ FCAt(th, "Get", "rlock")

\* No Increment and no Decrement ever returns.
IncrementNeverReturns == ~IncrementReturned

\* Once a goroutine is inside Increment with the lock, the lock is never
\* released: no later Get, Set or collector pass goes through.
IncrementKeepsTheLock ==
    [][(\E th \in CacheThreads : IncrementOngoing(th) /\ fcMu.writer = th)
        => fcMu' = fcMu]_vars

\* C26: the derivation of the field map of a record type that embeds another
\* terminates, and the recursive call for the embedded type never waits for
\* scannerCacheMu while the same goroutine holds it.
DerivationTerminates ==
    /\ \A th \in ScanThreads :
          (scanThreads[th].busy /\ Embeds(scanThreads[th].dest))
              ~> ~scanThreads[th].busy
    /\ [](\A th \in ScanThreads : ~SelfBlocked(th))

\* The derivation of the embedding type has called itself for the embedded
\* type, which is not cached, and that call is at its RLock while the
\* goroutine holds the write lock.
DerivationTerminatesWitness ==
    \E th \in ScanThreads :
        /\ scanThreads[th].busy
        /\ Len(scanThreads[th].stack) = 2
        /\ Embeds(scanThreads[th].stack[1].type)
        /\ scanThreads[th].stack[1].pc = "slow"
        /\ scanThreads[th].stack[2].type \notin DOMAIN scannerCache
        /\ SelfBlocked(th)

\* Once a goroutine waits for the lock it holds, the lock stays held.
SelfBlockedForEver ==
    [][\A th \in ScanThreads :
          SelfBlocked(th) => (scannerCacheMu' = scannerCacheMu
                                /\ scanThreads'[th] = scanThreads[th])]_vars

\* The first half of C26 alone.
EmbeddingScanReturns ==
    \A th \in ScanThreads :
        (scanThreads[th].busy /\ Embeds(scanThreads[th].dest))
            ~> ~scanThreads[th].busy

\* C27: admission attempts made concurrently on one key take effect one at
\* a time: each Allow leaves the map and returns the values that Allow run
\* alone on the map it found would, so no token is consumed twice and k
\* tokens admit at most k of the attempts; a pass of cleanup is one such
\* step too, with no admission inside it.
InLimiter(th) == rlThreads[th].pc \in {"now", "refill", "check", "finish", "range"}

OneAtATime ==
    \A a, b \in AllowThreads \cup {CleanupThread} :
        (InLimiter(a) /\ InLimiter(b)) => a = b

AllowTakesEffectAtOnce ==
    \A th \in AllowThreads :
        (rlThreads[th].pc = "finish" /\ rlThreads'[th].pc = "idle") =>
            LET r == AllowOn(rlThreads[th].pre, rlThreads[th].key, rlThreads[th].t)
            IN  /\ buckets' = r.buckets
                /\ lastConc'.allowed = r.allowed
                /\ lastConc'.remaining = r.remaining
                /\ lastConc'.retryAfter = r.retryAfter
                /\ r.allowed => Pointee(th).tokensW >= OneToken

CleanupTakesEffectAtOnce ==
    (rlThreads[CleanupThread].pc = "range" /\ rlThreads'[CleanupThread].pc = "idle")
        => buckets' = CleanupExpired(rlThreads[CleanupThread].pre,
                                     rlThreads[CleanupThread].t)

AdmissionsLinearizable ==
    /\ [](OneAtATime /\ \A k \in DOMAIN buckets : buckets[k].tokensW >= 0)
    /\ [][AllowTakesEffectAtOnce /\ CleanupTakesEffectAtOnce]_vars

\* One goroutine is about to consume the last token of the key while the
\* other and the reaper wait for the lock, an admission having been made.
AdmissionsLinearizableWitness ==
    /\ \E a, b \in AllowThreads :
          /\ rlThreads[a].pc = "finish"
          /\ rlThreads[a].ok
          /\ Pointee(a).tokensW < 2 * OneToken
          /\ rlThreads[b].pc = "lock"
          /\ rlThreads[b].key = rlThreads[a].key
    /\ rlThreads[CleanupThread].pc = "lock"
    /\ lastConc.done
    /\ lastConc.op = "Allow"
    /\ lastConc.allowed

\* A pass of cleanup that deleted a bucket has finished.
CleanupDeletedWitness ==
    /\ lastConc.done
    /\ lastConc.op = "cleanup"
    /\ buckets = <<>>
    /\ \E th \in AllowThreads : rlThreads[th].pc = "lock"

\* C28: when several goroutines ask for the field map of a record type that
\* is not cached, an entry is put into the cache only for a type that has
\* none, by the holder of the write lock; every entry and every map handed
\* to a caller is the derivation of its type, so all callers get the same
\* map; and the map of an entry never changes while the entry is in the
\* cache, whatever happens to its lastAccess.
EntryIsDerivation ==
    \A type \in DOMAIN scannerCache :
        scannerCache[type].fieldMap = FieldMapOf(type)

CallerGetsDerivation ==
    (lastScan.done /\ lastScan.dest \in DOMAIN StructTypes) =>
        lastScan.fieldMap = FieldMapOf(lastScan.dest)

MappingStable ==
    \A type \in DOMAIN scannerCache \cap DOMAIN scannerCache' :
        scannerCache'[type].fieldMap = scannerCache[type].fieldMap

InstalledUnderLock ==
    \A type \in (DOMAIN scannerCache') \ (DOMAIN scannerCache) :
        /\ scannerCacheMu.writer # NoThread
        /\ scannerCacheMu.readers = {}
        /\ At(scannerCacheMu.writer, "slow")
        /\ Top(scannerCacheMu.writer).type = type

FieldMapInstalledOnce ==
    /\ [](EntryIsDerivation /\ CallerGetsDerivation)
    /\ [][MappingStable /\ InstalledUnderLock]_vars

\* Both goroutines missed the type on the fast path; one has installed the
\* entry and returned, the other holds the write lock and is at the double
\* check, where it finds the entry.
FieldMapInstalledOnceWitness ==
    \E th \in ScanThreads :
        /\ At(th, "slow")
        /\ Top(th).i = 0
        /\ Top(th).type \in DOMAIN scannerCache
        /\ scannerCacheMu.writer = th
        /\ lastScan.done
        /\ lastScan.dest = Top(th).type
        /\ lastScan.fieldMap = scannerCache[Top(th).type].fieldMap

\* C29: in every reachable state every bucket holds at least 0 tokens and at
\* most the capacity; an Allow that admits leaves the bucket with exactly one
\* token less than the refill gave it, and an Allow that rejects leaves it
\* with what the refill gave it, which is never less than it held.
TokensInRange ==
    \A k \in DOMAIN buckets :
        /\ 0 <= buckets[k].tokensW
        /\ buckets[k].tokensW <= FullBucket

\* The step was an Allow on k that changed k's bucket or created it.
AllowStepOn(k) ==
    /\ k \in DOMAIN buckets'
    /\ k \notin DOMAIN buckets \/ buckets'[k] # buckets[k]

TokenAccounting ==
    \A k \in Keys :
        AllowStepOn(k) =>
            LET refilled == refillTokens(BucketOf(k), now)
            IN  /\ lastAllow'.called
                /\ lastAllow'.key = k
                /\ IF lastAllow'.allowed
                      THEN buckets'[k].tokensW = refilled.tokensW - OneToken
                      ELSE /\ buckets'[k].tokensW = refilled.tokensW
                           /\ buckets'[k].tokensW >= BucketOf(k).tokensW

\* Tokens go down only by an admission.
OnlyAdmissionsSpend ==
    \A k \in DOMAIN buckets \cap DOMAIN buckets' :
        buckets'[k].tokensW < buckets[k].tokensW =>
            /\ lastAllow'.key = k
            /\ lastAllow'.allowed

TokensBoundedAndCounted ==
    /\ []TokensInRange
    /\ [][TokenAccounting /\ OnlyAdmissionsSpend]_vars

\* A rejection has just been returned, after some time, for a bucket that
\* holds a fraction of a token.
TokensBoundedAndCountedWitness ==
    /\ lastAllow.called
    /\ ~lastAllow.allowed
    /\ lastAllow.key \in DOMAIN buckets
    /\ buckets[lastAllow.key].tokensW > 0
    /\ buckets[lastAllow.key].tokensW < OneToken
    /\ buckets[lastAllow.key].lastRefillTime = now
    /\ now > 0

\* C30: the eviction of a bucket by the reaper does not change what a later
\* Allow of its key decides and returns: at every later moment Allow gives
\* the same decision, the same remaining count and the same bucket on the
\* map without the bucket as on the map that still has it.
SameOutcome(r1, r2, k) ==
    /\ r1.allowed = r2.allowed
    /\ r1.remaining = r2.remaining
    /\ r1.retryAfter = r2.retryAfter
    /\ r1.buckets[k] = r2.buckets[k]

EvictedSameOutcome ==
    \A k \in (DOMAIN buckets) \ (DOMAIN buckets') :
        \A t \in now..MaxTime :
            SameOutcome(AllowOn(buckets', k, t), AllowOn(buckets, k, t), k)

\* Allow, as the model's action takes it, is AllowOn of the present map.
AllowIsAllowOn ==
    \A k \in Keys :
        AllowStepOn(k) =>
            LET r == AllowOn(buckets, k, now)
            IN  /\ buckets' = r.buckets
                /\ lastAllow'.allowed = r.allowed
                /\ lastAllow'.remaining = r.remaining
                /\ lastAllow'.retryAfter = r.retryAfter

EvictionInvisible == [][EvictedSameOutcome /\ AllowIsAllowOn]_vars

\* The last Allow of a key was a rejection, its bucket has been evicted
\* since, and the key has not been seen again.
EvictionInvisibleWitness ==
    /\ lastAllow.called
    /\ ~lastAllow.allowed
    /\ lastAllow.key \notin DOMAIN buckets

\* C31: every rejection reports retry-after = ceil(1 / refillRate) seconds,
\* that is ceil(windowInSeconds / maxRequests), so every 429 response has a
\* Retry-After header holding a whole number of seconds that is at least 1.
CeilOneOverRate == (windowInSeconds + maxRequests - 1) \div maxRequests

RetryAfterIsCeiling ==
    \A e \in Range(burst) :
        e.status = 429 =>
            /\ e.hasRetryAfter
            /\ e.retryAfter = CeilOneOverRate
            /\ e.retryAfter >= 1

\* What the code reports instead: the whole seconds of 1 / refillRate.
RetryAfterIsFloor ==
    \A e \in Range(burst) :
        e.status = 429 =>
            /\ e.hasRetryAfter
            /\ e.retryAfter = windowInSeconds \div maxRequests

\* A 429 has been sent by a limiter whose 1 / refillRate is not a whole
\* number of seconds.
RetryAfterIsCeilingWitness ==
    \E e \in Range(burst) :
        /\ e.status = 429
        /\ e.hasRetryAfter
        /\ windowInSeconds % maxRequests # 0

\* C32: once an admission has left a key's bucket with less than one token,
\* a request of that key that arrives 1 / refillRate seconds or more after
\* that admission, with nothing but rejections of the key in between, is
\* admitted, however many the rejections were and whenever they came.
Exhausting(log, i) == log[i].allowed /\ log[i].remaining = 0

OnlyRejectionsBetween(log, i, j) == \A k \in (i + 1) .. (j - 1) : ~log[k].allowed

OneTokenLater(log, i, j) == (log[j].at - log[i].at) * maxRequests >= windowInSeconds

AdmittedAfterOneRefill ==
    \A e \in Range(burst) :
        LET log == KeyLog(e.key)
        IN  \A i, j \in 1 .. Len(log) :
                (i < j /\ Exhausting(log, i) /\ OnlyRejectionsBetween(log, i, j)
                       /\ OneTokenLater(log, i, j))
                    => log[j].allowed

\* A key was exhausted, was rejected later when a fraction of a token had
\* accrued, and was admitted later still.
AdmittedAfterOneRefillWitness ==
    \E e \in Range(burst) :
        LET log == KeyLog(e.key)
        IN  \E i, k, j \in 1 .. Len(log) :
                /\ i < k /\ k < j
                /\ Exhausting(log, i)
                /\ OnlyRejectionsBetween(log, i, j)
                /\ ~log[k].allowed
                /\ log[k].at > log[i].at
                /\ ((log[k].at - log[i].at) * maxRequests) % windowInSeconds # 0
                /\ OneTokenLater(log, i, j)
                /\ log[j].allowed

\* C33: as long as a session's token has not expired, every request of the
\* session is issued that token and the entry is left as it is; the first
\* request after the expiry is issued a token never issued before, which is
\* stored with an expiry two hours on; and validation never accepts once
\* the stored token's expiry has passed.
Issued(th) == inflight[th] = Idle /\ inflight'[th] # Idle

IssuanceKeepsOrReplaces ==
    \A th \in Threads :
        Issued(th) =>
            LET sessionID == inflight'[th].sessionID
                token == inflight'[th].csrfCookie
            IN  sessionID \in DOMAIN csrfTokens =>
                  /\ now < csrfTokens[sessionID].ExpiresAt =>
                        /\ token = csrfTokens[sessionID].Value
                        /\ csrfTokens' = csrfTokens
                  /\ now > csrfTokens[sessionID].ExpiresAt =>
                        /\ \A s \in DOMAIN csrfTokens : csrfTokens[s].Value # token
                        /\ token \notin {Token(n) : n \in 1 .. (nextToken - 1)}
                        /\ csrfTokens'[sessionID] =
                              [Value |-> token, ExpiresAt |-> now + CSRFTokenTTL]

UnexpiredEntryKept ==
    \A sessionID \in DOMAIN csrfTokens :
        now < csrfTokens[sessionID].ExpiresAt =>
            /\ sessionID \in DOMAIN csrfTokens'
            /\ csrfTokens'[sessionID] = csrfTokens[sessionID]

ExpiredNeverAccepted ==
    (lastResp.done /\ lastResp.method \notin SafeMethods /\ lastResp.stored.exists
        /\ lastResp.at > lastResp.stored.ExpiresAt)
      => (~lastResp.handler /\ lastResp.status = 403)

TokenStableUntilExpiry ==
    /\ []ExpiredNeverAccepted
    /\ [][IssuanceKeepsOrReplaces /\ UnexpiredEntryKept]_vars

\* The one session there is has come back after its token's expiry and has
\* been issued the second token.
TokenStableUntilExpiryWitness ==
    /\ DOMAIN csrfTokens = {SessionID(1)}
    /\ nextToken = 3
    /\ csrfTokens[SessionID(1)].Value = Token(2)
    /\ csrfTokens[SessionID(1)].ExpiresAt = now + CSRFTokenTTL
    /\ \E th \in Threads :
          /\ inflight[th] # Idle
          /\ inflight[th].sessionID = SessionID(1)
          /\ inflight[th].csrfCookie = Token(2)

\* C34: the middleware chain of a route is made when the route is
\* registered, from the global middleware of that moment: Use leaves every
\* installed handler as it is, a registration installs a chain that starts
\* with all the global middleware added so far, and a dispatch runs the
\* chain of the registration, whatever has been added since.
HandlerAt(trs, method, np) ==
    IF method \in DOMAIN trs /\ np \in DOMAIN trs[method]
        THEN trs[method][np].handler
        ELSE NoHandler

UseKeepsChains == (middlewares' # middlewares) => (trees' = trees)

RegistrationTakesGlobal ==
    \A method \in DOMAIN trees' :
        \A np \in DOMAIN trees'[method] :
            LET old == HandlerAt(trees, method, np)
                new == trees'[method][np].handler
            IN  (new # old /\ new # NoHandler) =>
                  /\ new.global = IF new.route = <<>> THEN middlewares ELSE old.global
                  /\ new.serve = wrapMiddleware(adaptHandler(new.h),
                                                 new.global \o new.group \o new.route)

DispatchRunsRegisteredChain ==
    (lastDispatch.done /\ lastDispatch.status = 200) =>
        /\ IsPrefix(lastDispatch.handler.global, middlewares)
        /\ lastDispatch.trace =
              Run(wrapMiddleware(adaptHandler(lastDispatch.handler.h),
                                 lastDispatch.handler.global
                                    \o lastDispatch.handler.group
                                    \o lastDispatch.handler.route))

ChainFixedAtRegistration ==
    /\ []DispatchRunsRegisteredChain
    /\ [][UseKeepsChains /\ RegistrationTakesGlobal]_vars

\* A route registered before the second Use has been dispatched after it
\* and ran G1 only, while a route registered after it has both.
ChainFixedAtRegistrationWitness ==
    /\ middlewares = <<"G1", "G2">>
    /\ lastDispatch.done
    /\ lastDispatch.status = 200
    /\ lastDispatch.handler.global = <<"G1">>
    /\ <<"enter", "G2">> \notin Range(lastDispatch.trace)
    /\ \E method \in DOMAIN trees :
          \E np \in DOMAIN trees[method] :
              /\ trees[method][np].handler # NoHandler
              /\ trees[method][np].handler.global = <<"G1", "G2">>

\* C35: a request goes to the not-found handler, and no route handler runs,
\* exactly when there is no trie for its method, or at some node on its way
\* the next request segment has neither an equal static child nor a
\* parameter child, or the node its last segment leads to has no handler.
\* np is the way the walk takes through the trie for the first Len(np)
\* request segments: static child if there is an equal one, else parameter.
OnTheWay(trie, parts, np) ==
    /\ Len(np) <= Len(parts)
    /\ np \in DOMAIN trie
    /\ \A i \in 1 .. Len(np) :
          np[i] = IF Append(SubSeq(np, 1, i - 1), StaticEdge(parts[i])) \in DOMAIN trie
                     THEN StaticEdge(parts[i]) ELSE ParamEdge

NoChildFor(trie, parts) ==
    \E np \in DOMAIN trie :
        /\ OnTheWay(trie, parts, np)
        /\ Len(np) < Len(parts)
        /\ Append(np, StaticEdge(parts[Len(np) + 1])) \notin DOMAIN trie
        /\ Append(np, ParamEdge) \notin DOMAIN trie

EndsWithoutHandler(trie, parts) ==
    \E np \in DOMAIN trie :
        /\ OnTheWay(trie, parts, np)
        /\ Len(np) = Len(parts)
        /\ trie[np].handler = NoHandler

NotFoundCondition ==
    \/ lastDispatch.method \notin DOMAIN trees
    \/ NoChildFor(trees[lastDispatch.method], RequestParts)
    \/ EndsWithoutHandler(trees[lastDispatch.method], RequestParts)

WentToNotFound ==
    /\ lastDispatch.status = 404
    /\ lastDispatch.trace = <<<<"handler", "NotFoundHandler">>>>

NotFoundExactly ==
    lastDispatch.done =>
        /\ WentToNotFound <=> NotFoundCondition
        /\ ~WentToNotFound =>
              /\ lastDispatch.status = 200
              /\ \E h \in Handlers : <<"handler", h>> \in Range(lastDispatch.trace)
              /\ <<"handler", "NotFoundHandler">> \notin Range(lastDispatch.trace)

\* A request whose walk ended at a node that exists for a longer route only.
NotFoundExactlyWitness ==
    /\ lastDispatch.done
    /\ lastDispatch.status = 404
    /\ lastDispatch.method \in DOMAIN trees
    /\ RequestParts # <<>>
    /\ EndsWithoutHandler(trees[lastDispatch.method], RequestParts)

\* A request that met a segment with no child to go to.
NoChildWitness ==
    /\ lastDispatch.done
    /\ lastDispatch.status = 404
    /\ lastDispatch.method \in DOMAIN trees
    /\ NoChildFor(trees[lastDispatch.method], RequestParts)
    /\ <<StaticEdge(SegUsers), ParamEdge>> \in DOMAIN trees[lastDispatch.method]

(***************************************************************************)
(* The close of the row stream in Get and First.                           *)
(***************************************************************************)
\* A Get or a First that got a row stream has ended: by a return or by a
\* panic, the stream closed on the way out.
ReadEnded ==
    /\ lastCall.kind \in {"First", "Get"}
    /\ lastCall.done
    /\ lastCall.closed

\* What the operation was about to return when the deferred close began:
\* the result of its scan, read from the rows and the scanner's answer.
BeforeClose ==
    IF lastCall.kind = "First"
        THEN IF lastCall.rows = <<>> THEN "not-found"
             ELSE IF lastCall.scan.err = "" THEN "scanned"
             ELSE "scan-error"
    ELSE IF lastCall.dest = NotASlice THEN "scan-error"
    ELSE IF lastCall.scan.done /\ lastCall.scan.err # "" THEN "scan-error"
    ELSE IF lastCall.rowsErr THEN "rows-error"
    ELSE "scanned"

\* C37: in Get and First an error of closing the row stream does not change
\* the outcome: the caller receives the scan result or scan error that was
\* determined before the close, and the operation returns normally (its
\* outcome is never the panic of the deferred close).
CloseErrorKeepsOutcome ==
    ReadEnded =>
        /\ lastCall.outcome # "close-panic"
        /\ lastCall.outcome = BeforeClose

\* The same for the operations whose stream closes without an error.
CloseKeepsOutcome ==
    (ReadEnded /\ ~lastCall.closeErr) => lastCall.outcome = BeforeClose

\* A Get that had appended one record to the slice when the close of its
\* row stream failed.
CloseErrorKeepsOutcomeWitness ==
    /\ ReadEnded
    /\ lastCall.kind = "Get"
    /\ lastCall.closeErr
    /\ lastCall.appended = 1
    /\ ~lastCall.rowsErr

\* A First whose scan had failed when the close of its row stream failed.
FirstCloseFailedWitness ==
    /\ ReadEnded
    /\ lastCall.kind = "First"
    /\ lastCall.closeErr
    /\ lastCall.scan.done
    /\ lastCall.scan.err # ""


(***************************************************************************)
(* Invalid identifiers and operators in the query state.                   *)
(***************************************************************************)
TerminalKinds == {"Get", "First", "ExecInsert", "ExecUpdate", "ExecDelete"}

\* The last call was a terminal operation on the query state qb, and it has
\* ended or is past its call of the executor.
TerminalRan == lastCall.kind \in TerminalKinds

\* The identifier fails the pattern ^[a-zA-Z0-9_\.]+$; "*" is the wildcard
\* and no identifier.
FailsPattern(id) == id # Star /\ ~MatchIdentifier(id)

\* The operator, trimmed and in upper case, is not in the whitelist.
OutsideWhitelist(operator) == ToUpper(TrimSpace(operator)) \notin allowedOperators

\* The identifiers a query state holds, in any of its parts.
StateIdentifiers(q) ==
    {q.table} \cup Range(q.columns)
        \cup {q.wheres[i].Column : i \in DOMAIN q.wheres}
        \cup {q.orders[i].Column : i \in DOMAIN q.orders}

StateOperators(q) == {q.wheres[i].Operator : i \in DOMAIN q.wheres}

\* The identifiers and operators of the parts of the state that a terminal
\* operation hands to the grammar.
CompiledIdentifiers(kind, q) ==
    IF kind \in {"Get", "First"} THEN StateIdentifiers(q)
    ELSE IF kind \in {"ExecUpdate", "ExecDelete"}
        THEN {q.table} \cup {q.wheres[i].Column : i \in DOMAIN q.wheres}
    ELSE {q.table}

CompiledOperators(kind, q) ==
    IF kind = "ExecInsert" THEN {} ELSE StateOperators(q)

Aborted == lastCall.result.panic /\ ~lastCall.queried

InsertIgnoresWheresWitness ==
    /\ lastCall.kind = "ExecInsert"
    /\ lastCall.queried
    /\ \E i \in DOMAIN qb.wheres : FailsPattern(qb.wheres[i].Column)


(***************************************************************************)
(* Registration of a path with a parameter segment without a name.         *)
(***************************************************************************)
\* C38: registering a route whose path has a parameter segment with an empty
\* name ("{}") is rejected, and no node or handler for that route is
\* installed: such a registration leaves every trie as it was.
EmptyNameRejected == [][HandleEmptyNameCall => UNCHANGED trees]_vars

\* The trie of GET has a node made for the segment "{}", and that node
\* holds a handler.
EmptyNameRejectedWitness ==
    /\ "GET" \in DOMAIN trees
    /\ \E np \in DOMAIN trees["GET"] :
          /\ trees["GET"][np].pathPart = SegEmpty
          /\ trees["GET"][np].isParam
          /\ trees["GET"][np].handler # NoHandler

\* A request was dispatched to a handler through such a node, with the
\* segment bound to the empty name.
EmptyNameBound ==
    /\ lastDispatch.done
    /\ lastDispatch.status = 200
    /\ <<>> \in DOMAIN lastDispatch.params


(***************************************************************************)
(* The booleans between the WHERE clauses, read back from the SQL text.    *)
(***************************************************************************)
WhereKinds == {"ToSQL", "ExecUpdate", "ExecDelete"}

\* The words of a statement: what stands between its blanks.
Words(sql) == SelectSeq(Split(sql, " "), LAMBDA t : t # <<>>)

KwWhere == <<"W", "H", "E", "R", "E">>
AfterWhereKeywords ==
    {<<"O", "R", "D", "E", "R">>, <<"L", "I", "M", "I", "T">>,
     <<"O", "F", "F", "S", "E", "T">>}

\* The words of the WHERE part: those after the word WHERE, up to the word
\* ORDER, LIMIT or OFFSET; none when there is no word WHERE.
WhereWords(sql) ==
    LET ws == Words(sql)
        at == {i \in DOMAIN ws : ws[i] = KwWhere}
    IN  IF at = {} THEN <<>>
        ELSE LET first == CHOOSE i \in at : \A j \in at : i <= j
                 rest == SubSeq(ws, first + 1, Len(ws))
                 stops == {i \in DOMAIN rest : rest[i] \in AfterWhereKeywords}
                 stop == IF stops = {} THEN Len(rest) + 1
                         ELSE CHOOSE i \in stops : \A j \in stops : i <= j
             IN  SubSeq(rest, 1, stop - 1)

\* Every clause ends with its placeholder; the k-th clause begins after the
\* placeholder of the one before.
PlaceholderAt(ws) == {i \in DOMAIN ws : ws[i] = <<"?">>}

ClauseStart(ws, k) ==
    IF k = 1 THEN 1
    ELSE 1 + CHOOSE i \in PlaceholderAt(ws) :
                Cardinality({j \in PlaceholderAt(ws) : j <= i}) = k - 1

\* C39: in compiled SELECT, UPDATE and DELETE statements the boolean of the
\* first WHERE clause is never emitted (the WHERE part begins with the first
\* clause's column, also when that clause was added with OrWhere), and every
\* later clause is preceded by exactly its own boolean.
FirstBooleanDropped ==
    (lastCall.kind \in WhereKinds /\ ~lastCall.result.panic) =>
        LET ws == WhereWords(lastCall.result.sql)
            n == Len(qb.wheres)
        IN  /\ Cardinality(PlaceholderAt(ws)) = n
            /\ n = 0 => KwWhere \notin Range(Words(lastCall.result.sql))
            /\ n > 0 => ws[1] = Wrap(qb.wheres[1].Column).out
            /\ \A k \in 2 .. n :
                  /\ ws[ClauseStart(ws, k)] = qb.wheres[k].Boolean
                  /\ ws[ClauseStart(ws, k) + 1] = Wrap(qb.wheres[k].Column).out

\* A compiled DELETE whose first clause was added with OrWhere and whose
\* second clause was added with Where.
FirstBooleanDroppedWitness ==
    /\ lastCall.kind = "ExecDelete"
    /\ ~lastCall.result.panic
    /\ Len(qb.wheres) = 2
    /\ qb.wheres[1].Boolean = BoolOr
    /\ qb.wheres[2].Boolean = BoolAnd

\* A compiled SELECT whose two clauses were both added with OrWhere.
TwoOrWheresWitness ==
    /\ lastCall.kind = "ToSQL"
    /\ ~lastCall.result.panic
    /\ Len(qb.wheres) = 2
    /\ qb.wheres[1].Boolean = BoolOr
    /\ qb.wheres[2].Boolean = BoolOr


(***************************************************************************)
(* The parts of a compiled SELECT, read back from the SQL text.            *)
(***************************************************************************)
KwSelect == <<"S", "E", "L", "E", "C", "T">>
KwFrom == <<"F", "R", "O", "M">>
KwOrder == <<"O", "R", "D", "E", "R">>
KwBy == <<"B", "Y">>
KwLimit == <<"L", "I", "M", "I", "T">>
KwOffset == <<"O", "F", "F", "S", "E", "T">>
PartKeywords == {KwSelect, KwFrom, KwWhere, KwOrder, KwLimit, KwOffset}

\* The keywords that begin the parts of a statement, in the order in which
\* they stand in it.
PartsOf(sql) == SelectSeq(Words(sql), LAMBDA t : t \in PartKeywords)

\* The parts a query state calls for, in the fixed order.
PartsFor(q) ==
    <<KwSelect, KwFrom>>
        \o (IF Len(q.wheres) > 0 THEN <<KwWhere>> ELSE <<>>)
        \o (IF Len(q.orders) > 0 THEN <<KwOrder>> ELSE <<>>)
        \o (IF q.limit > 0 THEN <<KwLimit>> ELSE <<>>)
        \o (IF q.offset > 0 THEN <<KwOffset>> ELSE <<>>)

\* The place of a keyword that stands in the statement once.
WordAt(ws, kw) == CHOOSE i \in DOMAIN ws : ws[i] = kw

\* An item of a list, with the comma that follows it unless it is the last.
ListItem(text, i, n) == IF i < n THEN text \o <<",">> ELSE text

\* C40: CompileSelect emits its parts in this fixed order: SELECT <columns>
\* FROM <table>; then WHERE iff there is a where clause, the clauses in
\* insertion order; then ORDER BY iff there is an order clause, in insertion
\* order; then LIMIT n iff limit > 0; then OFFSET n iff offset > 0.
SelectPartsInOrder ==
    (lastCall.kind = "ToSQL" /\ ~lastCall.result.panic) =>
        LET ws == Words(lastCall.result.sql)
            from == WordAt(ws, KwFrom)
            where == WhereWords(lastCall.result.sql)
            nc == Len(qb.columns)
            no == Len(qb.orders)
        IN  /\ PartsOf(lastCall.result.sql) = PartsFor(qb)
            /\ ws[1] = KwSelect
            /\ from = nc + 2
            /\ \A i \in 1 .. nc :
                  ws[1 + i] = ListItem(Wrap(qb.columns[i]).out, i, nc)
            /\ ws[from + 1] = Wrap(qb.table).out
            /\ Len(qb.wheres) > 0 => ws[from + 2] = KwWhere
            /\ Cardinality(PlaceholderAt(where)) = Len(qb.wheres)
            /\ \A k \in 1 .. Len(qb.wheres) :
                  where[ClauseStart(where, k) + (IF k = 1 THEN 0 ELSE 1)]
                      = Wrap(qb.wheres[k].Column).out
            /\ lastCall.result.args = [k \in 1 .. Len(qb.wheres) |-> qb.wheres[k].Value]
            /\ no > 0 =>
                  LET order == WordAt(ws, KwOrder)
                  IN  /\ ws[order + 1] = KwBy
                      /\ \A i \in 1 .. no :
                            /\ ws[order + 2 * i] = Wrap(qb.orders[i].Column).out
                            /\ ws[order + 2 * i + 1]
                                  = ListItem(qb.orders[i].Direction, i, no)
                      /\ order + 2 * no + 1 = Len(ws) \/
                            ws[order + 2 * no + 2] \in {KwLimit, KwOffset}
            /\ qb.limit > 0 => ws[WordAt(ws, KwLimit) + 1] = Itoa(qb.limit)
            /\ qb.offset > 0 =>
                  /\ ws[WordAt(ws, KwOffset) + 1] = Itoa(qb.offset)
                  /\ WordAt(ws, KwOffset) + 1 = Len(ws)

\* A compiled SELECT of two columns with two where clauses, two order
\* clauses of different directions, a limit and an offset.
SelectPartsInOrderWitness ==
    /\ lastCall.kind = "ToSQL"
    /\ ~lastCall.result.panic
    /\ Len(qb.columns) = 2
    /\ Len(qb.wheres) = 2
    /\ qb.wheres[1].Column # qb.wheres[2].Column
    /\ Len(qb.orders) = 2
    /\ qb.orders[1].Direction = OrderDesc
    /\ qb.orders[2].Direction = OrderAsc
    /\ qb.limit = 10
    /\ qb.offset = 5

\* A compiled SELECT with nothing but its columns and its table.
BareSelectWitness ==
    /\ lastCall.kind = "ToSQL"
    /\ ~lastCall.result.panic
    /\ PartsOf(lastCall.result.sql) = <<KwSelect, KwFrom>>

====
